---- MODULE Spec2Model ----
(***************************************************************************)
(* AOS (Animate On Scroll) engine of the preschool component library:      *)
(* getOption, prepare, handleIntersection and the aos coordinator, with    *)
(* the browser's IntersectionObserver / ResizeObserver / MutationObserver  *)
(* and debounce timer as the environment that schedules its callbacks;     *)
(* the hc-accordion components; the Lenis-driven AnimateOnScroll.          *)
(*                                                                         *)
(* JavaScript strings are sequences of one-character strings, so that      *)
(* concatenation, splitting and number parsing are computed, not assumed.  *)
(***************************************************************************)
EXTENDS Integers, Sequences, FiniteSets, TLC

VARIABLES
    \* ---- document
    readyState,         \* document.readyState
    attrs,              \* element -> its data-aos* attributes (null or a string)
    inDoc,              \* element -> it is attached to the document
    classList,          \* element -> set of class names
    aosMeta,            \* stamped elements -> element._aosMeta
    visible,            \* element -> it intersects its observer's root box
    \* ---- coordinator (aos)
    options,            \* module-level options
    initialized,        \* module-level initialized
    observerInstances,  \* module-level observerInstances (ids, in creation order)
    resizeObserver,     \* module-level resizeObserver: [active, targets]
    startListeners,     \* start event -> number of startObserving listeners added
    mutationObservers,  \* number of MutationObservers observer.ready installed
    \* ---- browser objects and queues
    ioLive,             \* IntersectionObservers created and not disconnected
    ioConfig,           \* live observer -> the init dictionary it was built with
    ioTargets,          \* observer -> elements it observes
    ioLast,             \* observer -> element -> last state delivered
    staleEntries,       \* entries queued on observers that were then disconnected
    roPending,          \* the resize observer has a notification to deliver
    curTimer,           \* the current debounced callback has a timer running
    timers,             \* number of debounce timers running (all closures)
    moPending,          \* mutation records with a trigger node, not yet delivered
    \* ---- what an outside listener on document has seen
    listening,          \* a page script listens for aos:in on document
    aosInCount,         \* element -> number of aos:in events it has received
    latched,            \* element -> animated with once since the last disable
    lastOp,             \* what the last step did: "build", "disable", "init",
                        \* "refresh" (the last two without a build) or "other"
    eventLog,           \* the events the latest handleIntersection call
                        \* dispatched, as the listener saw them
    \* ---- direct calls of the helpers (their unit-test harnesses)
    observerGroups,     \* the mapping prepare returned
    batch,              \* the entries handleIntersection was called with
    mutations,          \* the batch of records check was called with
    callbackCalls,      \* the calls of the watcher's callback check made
    phase,              \* "coordinator", or the harness's position
    optionCall,         \* the arguments getOption was called with
    returned,           \* the value that call returned
    \* ---- hc-accordion and its hc-accordion-item elements
    allowMultiple,      \* HcAccordion.allowMultiple
    expanded,           \* item -> HcAccordionItem.expanded
    disabled,           \* item -> HcAccordionItem.disabled
    changed,            \* item -> an update with 'expanded' changed is pending
    animation,          \* item -> the animation running on its body
    vetoes,             \* the accordion events the page's listener cancels
    \* ---- the Lenis-driven AnimateOnScroll and its page
    aosInstance,        \* the singleton: [exists, initialized, elements, ...]
    marks,              \* element -> its data-aos-once / data-aos-mirror
    animated,           \* the elements that carry the class aos-animate
    scrollTop,          \* lenis.scroll
    refreshTimers,      \* debounce timers of the resize and mutation handlers
    \* ---- the registry of on()
    eventListeners,     \* event name -> the callbacks on() has stored for it
    \* ---- the ps-dropdown elements of the page
    open,               \* dropdown -> its open property
    documentListeners,  \* the dropdowns whose click and keydown listeners
                        \* are registered on document
    listenerTimers,     \* dropdown -> its setTimeout(..., 0) calls not yet run
    dispatched,         \* dropdown -> the event the latest step dispatched on it
    \* ---- the floating-label utility and its page
    labelsInitialized,  \* let initialized
    containers,         \* the Map: container -> the handler set stored for it
    attached,           \* container -> the handler sets attached to its input
    marked,             \* container -> its classes is-focused and has-content
    filled,             \* container -> its input's value has non-blank text
    inputs,             \* the containers that hold an .input
    destroyCount,       \* the destroy() calls so far, as far as counted
    \* ---- the hc-modal elements of the page
    modalOpen,          \* modal -> its open property
    openChanged,        \* the modals with a Lit update pending for open
    connected,          \* the modals that are in the document
    noModal,            \* the modals with the no-modal attribute
    bodyFixed,          \* document.body.style.position is 'fixed'
    everOpen            \* the modals whose open property has ever been true

\* the variables of the AOS engine and of its helpers' harnesses
aosVars == <<readyState, attrs, inDoc, classList, aosMeta, visible, options,
             initialized, observerInstances, resizeObserver, startListeners,
             mutationObservers, ioLive, ioConfig, ioTargets, ioLast,
             staleEntries, roPending, curTimer, timers, moPending, listening,
             aosInCount, latched, lastOp, eventLog, observerGroups, batch,
             mutations, callbackCalls>>

optionVars == <<optionCall, returned>>

accordionVars == <<allowMultiple, expanded, disabled, changed, animation, vetoes>>

lenisVars == <<aosInstance, marks, animated, scrollTop, refreshTimers>>

registryVars == <<eventListeners>>

dropdownVars == <<open, documentListeners, listenerTimers, dispatched>>

labelVars ==
    <<labelsInitialized, containers, attached, marked, filled, inputs,
      destroyCount>>

modalVars == <<modalOpen, openChanged, connected, noModal, bodyFixed, everOpen>>

widgetVars == <<dropdownVars, labelVars, modalVars>>

\* what the AOS engine and its helpers never touch
elsewhere == <<registryVars, optionVars, accordionVars, lenisVars, widgetVars>>

\* what a call of getOption, the accordion, the Lenis variant and each of
\* the widgets leave alone
exceptOption == <<aosVars, registryVars, accordionVars, lenisVars, widgetVars>>

exceptAccordion ==
    <<aosVars, phase, registryVars, optionVars, lenisVars, widgetVars>>

exceptLenis ==
    <<aosVars, phase, registryVars, optionVars, accordionVars, widgetVars>>

exceptDropdown ==
    <<aosVars, phase, registryVars, optionVars, accordionVars, lenisVars,
      labelVars, modalVars>>

exceptLabels ==
    <<aosVars, phase, registryVars, optionVars, accordionVars, lenisVars,
      dropdownVars, modalVars>>

exceptModals ==
    <<aosVars, phase, registryVars, optionVars, accordionVars, lenisVars,
      dropdownVars, labelVars>>

vars == <<aosVars, phase, registryVars, optionVars, accordionVars, lenisVars,
          widgetVars>>

-----------------------------------------------------------------------------
(* Bounds of the model *)

NumElems == 2            \* trigger elements the page ever holds
MaxObservers == 3        \* IntersectionObserver objects alive at once
MaxInstalled == 1        \* start listeners waiting for one event
MaxWatchers == 2         \* mutation observers counted
MaxStale == 1            \* entries still queued on disconnected observers
MaxRecords == 1          \* mutation records pending at once
MaxTimers == 1           \* debounce timers running at once
EventCap == 5            \* the listener's event counter stops here

Elems == 1..NumElems
ObsIds == 1..MaxObservers
Scrollable == {1}               \* the elements scrolling moves in and out of view
Detachable == Elems \ {1}       \* the elements scripts attach and detach

-----------------------------------------------------------------------------
(* Strings *)

Digits == {"0", "1", "2", "3", "4", "5", "6", "7", "8", "9"}

S_true == <<"t", "r", "u", "e">>
S_false == <<"f", "a", "l", "s", "e">>
S_null == <<"n", "u", "l", "l">>
S_aos_animate == <<"a", "o", "s", "-", "a", "n", "i", "m", "a", "t", "e">>
S_aos_init == <<"a", "o", "s", "-", "i", "n", "i", "t">>
S_default_margin == <<"0", "p", "x", " ", "0", "p", "x", " ", "-", "1", "0", "%", " ", "0", "p", "x">>
S_fade == <<"f", "a", "d", "e">>
S_10px == <<"1", "0", "p", "x">>
S_bar == <<"|">>
S_colon == <<":">>
S_aos_in == <<"a", "o", "s", ":", "i", "n">>
S_aos_out == <<"a", "o", "s", ":", "o", "u", "t">>

RECURSIVE TrimLeft(_)
TrimLeft(s) == IF s # <<>> /\ Head(s) = " " THEN TrimLeft(Tail(s)) ELSE s

RECURSIVE TrimRight(_)
TrimRight(s) ==
    IF s # <<>> /\ s[Len(s)] = " " THEN TrimRight(SubSeq(s, 1, Len(s) - 1)) ELSE s

Trim(s) == TrimRight(TrimLeft(s))

RECURSIVE StripLeadingZeros(_)
StripLeadingZeros(s) ==
    IF Len(s) > 1 /\ Head(s) = "0" THEN StripLeadingZeros(Tail(s)) ELSE s

RECURSIVE StripTrailingZeros(_)
StripTrailingZeros(s) ==
    IF s # <<>> /\ s[Len(s)] = "0"
    THEN StripTrailingZeros(SubSeq(s, 1, Len(s) - 1)) ELSE s

\* index of the first c in s, 0 when there is none
IndexOf(s, c) ==
    IF \E i \in 1..Len(s) : s[i] = c
    THEN CHOOSE i \in 1..Len(s) : s[i] = c /\ \A j \in 1..(i - 1) : s[j] # c
    ELSE 0

AllDigits(s) == \A i \in 1..Len(s) : s[i] \in Digits

\* String.prototype.split(' ')
RECURSIVE Split(_)
Split(s) ==
    LET i == IndexOf(s, " ")
    IN  IF i = 0 THEN <<s>>
        ELSE <<SubSeq(s, 1, i - 1)>> \o Split(SubSeq(s, i + 1, Len(s)))

-----------------------------------------------------------------------------
(* JavaScript values: the type tag and the value's String() form *)

JsNull == [t |-> "null", v |-> S_null]
JsStr(s) == [t |-> "string", v |-> s]
JsNum(s) == [t |-> "number", v |-> s]
JsBool(b) == [t |-> "boolean", v |-> IF b THEN S_true ELSE S_false]

JsString(x) == x.v

Truthy(x) ==
    CASE x.t = "null" -> FALSE
      [] x.t = "boolean" -> x.v = S_true
      [] x.t = "number" -> x.v # <<"0">>
      [] OTHER -> x.v # <<>>

\* Number(attr) for decimal literals: the sign, the digits and the point of
\* the trimmed text. NaN is <<>>; any other result is the number's String().
UnsignedParts(ip, fp) ==
    IF ~(AllDigits(ip) /\ AllDigits(fp)) \/ (ip = <<>> /\ fp = <<>>) THEN <<>>
    ELSE (IF ip = <<>> THEN <<"0">> ELSE StripLeadingZeros(ip))
         \o (IF StripTrailingZeros(fp) = <<>> THEN <<>>
             ELSE <<".">> \o StripTrailingZeros(fp))

UnsignedAt(s, p) ==
    IF p = 0 THEN UnsignedParts(s, <<>>)
    ELSE UnsignedParts(SubSeq(s, 1, p - 1), SubSeq(s, p + 1, Len(s)))

Unsigned(s) == UnsignedAt(s, IndexOf(s, "."))

WithSign(sign, u) ==
    IF u = <<>> THEN <<>>
    ELSE IF sign = "-" /\ u # <<"0">> THEN <<"-">> \o u
    ELSE u

NumberOfTrimmed(t) ==
    IF t = <<>> THEN <<"0">>
    ELSE IF Head(t) \in {"-", "+"} THEN WithSign(Head(t), Unsigned(Tail(t)))
    ELSE Unsigned(t)

Number(s) == NumberOfTrimmed(Trim(s))

\* the last two branches of getOption: !isNaN(Number(attr)) && attr !== ''
NumberOr(attr, n) == IF n # <<>> /\ attr.v # <<>> THEN JsNum(n) ELSE attr

\* getOption(el, key, fallback); attr is el.getAttribute('data-aos-' + key)
getOption(attr, fallback) ==
    IF attr.t = "null" THEN fallback
    ELSE IF attr.v = S_true THEN JsBool(TRUE)
    ELSE IF attr.v = S_false THEN JsBool(FALSE)
    ELSE NumberOr(attr, Number(attr.v))

-----------------------------------------------------------------------------
(* prepare *)

\* the class names of a list of values: .filter(typeof className === 'string')
RECURSIVE FilterStrings(_)
FilterStrings(xs) ==
    IF xs = <<>> THEN <<>>
    ELSE (IF Head(xs).t = "string" THEN <<Head(xs).v>> ELSE <<>>)
         \o FilterStrings(Tail(xs))

StrList(ss) == [i \in 1..Len(ss) |-> JsStr(ss[i])]

animatedClassNamesOf(a, opts) ==
    LET customClassNames == IF opts.useClassNames THEN a.aos ELSE JsNull
    IN  FilterStrings(<<opts.animatedClassName>>
            \o (IF Truthy(customClassNames)
                THEN StrList(Split(customClassNames.v)) ELSE <<>>))

\* the group key of prepare.js: `${rootMargin}|${threshold}`
ConfigKey(rootMargin, threshold) ==
    JsString(rootMargin) \o S_bar \o JsString(threshold)

GroupIndex(groups, key) ==
    IF \E i \in 1..Len(groups) : groups[i].key = key
    THEN CHOOSE i \in 1..Len(groups) : groups[i].key = key
    ELSE 0

\* the init class and the stamp of prepare's forEach body
Stamped(st, node, once, id, names, opts) ==
    [st EXCEPT
        !.classList = IF Truthy(opts.initClassName)
                      THEN [@ EXCEPT ![node] = @ \cup {opts.initClassName.v}]
                      ELSE @,
        !.aosMeta = [e \in DOMAIN @ \cup {node} |->
                        IF e = node
                        THEN [options |-> [once |-> once,
                                           animatedClassNames |-> names,
                                           id |-> id],
                              animated |-> FALSE]
                        ELSE @[e]]]

\* faulty variant: a later element is put in front of its group's elements
GroupedPrepending(st, node, rootMargin, threshold, configKey, i) ==
    [st EXCEPT
        !.groups = IF i = 0
                   THEN Append(@, [key |-> configKey, rootMargin |-> rootMargin,
                                   threshold |-> threshold, elements |-> <<node>>])
                   ELSE [@ EXCEPT ![i].elements = <<node>> \o @]]

\* observerGroups.get(configKey), created when missing, and the push
Grouped(st, node, rootMargin, threshold, configKey, i) ==
    [st EXCEPT
        !.groups = IF i = 0
                   THEN Append(@, [key |-> configKey, rootMargin |-> rootMargin,
                                   threshold |-> threshold, elements |-> <<node>>])
                   ELSE [@ EXCEPT ![i].elements = Append(@, node)]]

GroupedByKey(st, node, rootMargin, threshold, configKey) ==
    Grouped(st, node, rootMargin, threshold, configKey,
            GroupIndex(st.groups, configKey))

GroupedOn(st, node, rootMargin, threshold) ==
    GroupedByKey(st, node, rootMargin, threshold, ConfigKey(rootMargin, threshold))

\* faulty variant: an element that already carries _aosMeta is passed over
PrepareNodeOnce(st, node, a, opts) ==
    IF node \in DOMAIN st.aosMeta THEN st
    ELSE GroupedOn(Stamped(st, node, getOption(a.once, opts.once),
                           getOption(a.id, JsNull), animatedClassNamesOf(a, opts),
                           opts),
                   node,
                   getOption(a.rootMargin, opts.rootMargin),
                   getOption(a.threshold, opts.threshold))

\* one pass of the forEach body of prepare over node, on the classes, the
\* metadata and the groups built so far
PrepareNode(st, node, a, opts) ==
    GroupedOn(Stamped(st, node, getOption(a.once, opts.once),
                      getOption(a.id, JsNull), animatedClassNamesOf(a, opts), opts),
              node,
              getOption(a.rootMargin, opts.rootMargin),
              getOption(a.threshold, opts.threshold))

RECURSIVE PrepareFrom(_, _, _, _)
PrepareFrom(st, nodes, as, opts) ==
    IF nodes = <<>> THEN st
    ELSE PrepareFrom(PrepareNode(st, Head(nodes), as[Head(nodes)], opts),
                     Tail(nodes), as, opts)

\* prepare($elements, options) on the document's classes and metadata
prepare(nodes, as, cls, meta, opts) ==
    PrepareFrom([classList |-> cls, aosMeta |-> meta, groups |-> <<>>], nodes, as, opts)

-----------------------------------------------------------------------------
(* Helpers on the browser's objects *)

Range(q) == {q[i] : i \in 1..Len(q)}

Min(S) == CHOOSE x \in S : \A y \in S : x <= y

\* the elements of S in document order
RECURSIVE DocOrder(_)
DocOrder(S) == IF S = {} THEN <<>> ELSE <<Min(S)>> \o DocOrder(S \ {Min(S)})

\* elements(): document.querySelectorAll('[data-aos]'), wrapped
elements == DocOrder({e \in Elems : inDoc[e]})

Capped(n) == IF listening /\ n < EventCap THEN n + 1 ELSE n

NoTargets == [e \in Elems |-> "new"]

NoConfig == [rootMargin |-> JsNull, threshold |-> JsNull]

\* IntersectionObserver.disconnect() on every observer in obs
Disconnect(st, obs) ==
    [st EXCEPT !.ioLive = @ \ obs,
               !.ioConfig = [o \in ObsIds |-> IF o \in obs THEN NoConfig ELSE @[o]],
               !.ioTargets = [o \in ObsIds |-> IF o \in obs THEN {} ELSE @[o]],
               !.ioLast = [o \in ObsIds |-> IF o \in obs THEN NoTargets ELSE @[o]]]

\* IntersectionObserver.unobserve(e) on observer o; o = 0 is an observer
\* that has been disconnected, which observes nothing
Unobserve(st, o, e) ==
    IF o \in st.ioLive
    THEN [st EXCEPT !.ioTargets[o] = @ \ {e}, !.ioLast[o][e] = "new"]
    ELSE st

\* the coordinator's and the document's mutable state, as one value
Cur ==
    [classList |-> classList, aosMeta |-> aosMeta, initialized |-> initialized,
     observerInstances |-> observerInstances, resizeObserver |-> resizeObserver,
     ioLive |-> ioLive, ioConfig |-> ioConfig, ioTargets |-> ioTargets,
     ioLast |-> ioLast, roPending |-> roPending, curTimer |-> curTimer,
     aosInCount |-> aosInCount, latched |-> latched, eventLog |-> eventLog,
     ok |-> TRUE]

Install(x) ==
    \E st \in {x} :
    /\ st.ok
    /\ classList' = st.classList
    /\ aosMeta' = st.aosMeta
    /\ initialized' = st.initialized
    /\ observerInstances' = st.observerInstances
    /\ resizeObserver' = st.resizeObserver
    /\ ioLive' = st.ioLive
    /\ ioConfig' = st.ioConfig
    /\ ioTargets' = st.ioTargets
    /\ ioLast' = st.ioLast
    /\ roPending' = st.roPending
    /\ curTimer' = st.curTimer
    /\ aosInCount' = st.aosInCount
    /\ latched' = st.latched
    /\ eventLog' = st.eventLog

-----------------------------------------------------------------------------
(* handleIntersection *)

addClasses(cls, node, names) == [cls EXCEPT ![node] = @ \cup Range(names)]

removeClasses(cls, node, names) == [cls EXCEPT ![node] = @ \ Range(names)]

\* the event names a page registers callbacks for with on()
EventNames == {S_aos_in, S_aos_out}

\* a listener is called with the event: it sees the node as it is then
Heard(st, kind, eventName, node) ==
    [st EXCEPT !.eventLog =
        Append(@, [name |-> eventName, detail |-> node,
                   classes |-> st.classList[node],
                   animated |-> st.aosMeta[node].animated,
                   listener |-> kind])]

\* a fireEvent that also calls the callbacks on() has stored for the name
fireEventToRegistry(st, eventName, node) ==
    LET heard == IF listening THEN Heard(st, "document", eventName, node)
                 ELSE st
    IN  IF eventName \in EventNames /\ eventListeners[eventName] > 0
        THEN Heard(heard, "registry", eventName, node)
        ELSE heard

\* fireEvent(eventName, node): document.dispatchEvent, which runs the
\* document's listeners before it returns
fireEvent(st, eventName, node) ==
    IF listening THEN Heard(st, "document", eventName, node) ELSE st

\* if (id) fireEvent(`${eventName}:${id}`, element)
fireScoped(st, eventName, id, node) ==
    IF Truthy(id) THEN fireEvent(st, eventName \o S_colon \o JsString(id), node)
    ELSE st

\* if (once) observer.unobserve(element)
UnobserveIf(once, st, o, element) ==
    IF once THEN Unobserve(st, o, element) ELSE st

\* Show without its `if (once) observer.unobserve(element)`
ShowStillObserved(st, element, m, o) ==
    fireScoped(
        fireEvent([st EXCEPT
                      !.classList = addClasses(@, element,
                                               m.options.animatedClassNames),
                      !.aosMeta[element].animated = TRUE,
                      !.aosInCount[element] = Capped(@),
                      !.latched[element] = @ \/ Truthy(m.options.once)],
                  S_aos_in, element),
        S_aos_in, m.options.id, element)

\* the branch of handleIntersection that shows the animation
Show(st, element, m, o) ==
    UnobserveIf(Truthy(m.options.once),
        fireScoped(
            fireEvent([st EXCEPT
                          !.classList = addClasses(@, element,
                                                   m.options.animatedClassNames),
                          !.aosMeta[element].animated = TRUE,
                          !.aosInCount[element] = Capped(@),
                          !.latched[element] = @ \/ Truthy(m.options.once)],
                      S_aos_in, element),
            S_aos_in, m.options.id, element),
        o, element)

\* the branch of handleIntersection that hides the animation
Hide(st, element, m) ==
    fireScoped(
        fireEvent([st EXCEPT
                      !.classList = removeClasses(@, element,
                                                  m.options.animatedClassNames),
                      !.aosMeta[element].animated = FALSE],
                  S_aos_out, element),
        S_aos_out, m.options.id, element)

\* HandleStamped without the `!animated` test of the enter branch
HandleStampedAgain(st, entry, m, o) ==
    IF entry.isIntersecting
    THEN Show(st, entry.target, m, o)
    ELSE IF ~entry.isIntersecting /\ m.animated /\ ~Truthy(m.options.once)
    THEN Hide(st, entry.target, m)
    ELSE st

\* the forEach body of handleIntersection on a stamped element; m is its
\* _aosMeta
HandleStamped(st, entry, m, o) ==
    IF entry.isIntersecting /\ ~m.animated
    THEN Show(st, entry.target, m, o)
    ELSE IF ~entry.isIntersecting /\ m.animated /\ ~Truthy(m.options.once)
    THEN Hide(st, entry.target, m)
    ELSE st

\* the forEach body of handleIntersection for one entry delivered to observer o
HandleEntry(st, entry, o) ==
    IF entry.target \notin DOMAIN st.aosMeta THEN st
    ELSE HandleStamped(st, entry, st.aosMeta[entry.target], o)

\* handleIntersection whose `return` on a target without _aosMeta leaves the
\* whole loop
RECURSIVE handleIntersectionStopping(_, _, _)
handleIntersectionStopping(st, entries, o) ==
    IF entries = <<>> THEN st
    ELSE IF Head(entries).target \notin DOMAIN st.aosMeta THEN st
    ELSE handleIntersectionStopping(HandleEntry(st, Head(entries), o),
                                    Tail(entries), o)

RECURSIVE handleIntersection(_, _, _)
handleIntersection(st, entries, o) ==
    IF entries = <<>> THEN st
    ELSE handleIntersection(HandleEntry(st, Head(entries), o), Tail(entries), o)

-----------------------------------------------------------------------------
(* The coordinator *)

\* observer objects a build may take (st.ok records that the build found one
\* for every group)
FreeIds(st) == ObsIds \ st.ioLive

\* setupResizeObserver(allElements): the old observer is disconnected, the new
\* one reports the box of every element it starts to observe
setupResizeObserver(st, allElements) ==
    [st EXCEPT !.resizeObserver = [active |-> TRUE, targets |-> allElements],
               !.roPending = allElements # {},
               !.curTimer = FALSE]

\* faulty variant: every observer is built with the global options instead of
\* its group's rootMargin and threshold
RECURSIVE ObserveGroupsGlobalConfig(_, _, _)
ObserveGroupsGlobalConfig(st, groups, free) ==
    IF groups = <<>> THEN st
    ELSE IF free = {} THEN [st EXCEPT !.ok = FALSE]
    ELSE LET g == Head(groups)
             o == Min(free)
             made == [st EXCEPT
                 !.ioLive = @ \cup {o},
                 !.ioConfig[o] = [rootMargin |-> options.rootMargin,
                                  threshold |-> options.threshold],
                 !.ioTargets[o] = Range(g.elements),
                 !.observerInstances = Append(@, o)]
         IN  ObserveGroupsGlobalConfig(made, Tail(groups), free \ {o})

\* new IntersectionObserver(handleIntersection, {root: null, rootMargin,
\* threshold}) for each group, observing the group's elements
RECURSIVE ObserveGroups(_, _, _)
ObserveGroups(st, groups, free) ==
    IF groups = <<>> THEN st
    ELSE IF free = {} THEN [st EXCEPT !.ok = FALSE]
    ELSE LET g == Head(groups)
             o == Min(free)
             made == [st EXCEPT
                 !.ioLive = @ \cup {o},
                 !.ioConfig[o] = [rootMargin |-> g.rootMargin, threshold |-> g.threshold],
                 !.ioTargets[o] = Range(g.elements),
                 !.observerInstances = Append(@, o)]
         IN  ObserveGroups(made, Tail(groups), free \ {o})

DisconnectAll(st) ==
    [Disconnect(st, Range(st.observerInstances)) EXCEPT !.observerInstances = <<>>]

\* the classes and metadata prepare leaves on the document
Restamped(off, p) == [off EXCEPT !.classList = p.classList, !.aosMeta = p.aosMeta]

\* the observers of the groups p holds, then the resize observer
Rebuilt(off, p, nodes) ==
    setupResizeObserver(ObserveGroups(Restamped(off, p), p.groups, FreeIds(off)),
                        Range(nodes))

\* createObservers after its first statements: off is the state once the old
\* observers are dealt with
createObserversFrom(off, nodes, as, opts) ==
    Rebuilt(off, prepare(nodes, as, off.classList, off.aosMeta, opts), nodes)

\* faulty variant: the old observers are dropped from observerInstances without
\* being disconnected
createObserversLeaking(st, nodes, as, opts) ==
    createObserversFrom([st EXCEPT !.observerInstances = <<>>], nodes, as, opts)

createObservers(st, nodes, as, opts) ==
    createObserversFrom(DisconnectAll(st), nodes, as, opts)

\* faulty variant: the build does not wait for initialized
refreshUnguarded(st, initialize, nodes, as, opts) ==
    createObservers(IF initialize THEN [st EXCEPT !.initialized = TRUE] ELSE st,
                    nodes, as, opts)

\* refresh(initialize)
refresh(st, initialize, nodes, as, opts) ==
    LET on == IF initialize THEN [st EXCEPT !.initialized = TRUE] ELSE st
    IN  IF on.initialized THEN createObservers(on, nodes, as, opts) ELSE on

RECURSIVE refreshTimes(_, _, _, _, _)
refreshTimes(st, n, nodes, as, opts) ==
    IF n = 0 THEN st
    ELSE refreshTimes(refresh(st, FALSE, nodes, as, opts), n - 1, nodes, as, opts)

\* faulty variant: the closure builds and leaves initialized as it was
startObservingUnmarked(st, nodes, as, opts) ==
    createObservers(st, nodes, as, opts)

\* startObserving, the closure init() runs or registers
startObserving(st, nodes, as, opts) ==
    [createObservers(st, nodes, as, opts) EXCEPT !.initialized = TRUE]

RECURSIVE startObservingTimes(_, _, _, _, _)
startObservingTimes(st, n, nodes, as, opts) ==
    IF n = 0 THEN st
    ELSE startObservingTimes(startObserving(st, nodes, as, opts), n - 1, nodes, as, opts)

\* the class names disable() removes
DisabledClasses(opts) ==
    (IF Truthy(opts.initClassName) THEN {opts.initClassName.v} ELSE {})
    \cup (IF Truthy(opts.animatedClassName) THEN {opts.animatedClassName.v} ELSE {})

\* faulty variant: the stamped metadata is not deleted
disableKeepingMeta(st, nodes, opts) ==
    [DisconnectAll(st) EXCEPT
        !.resizeObserver = [active |-> FALSE, targets |-> {}],
        !.roPending = FALSE,
        !.curTimer = FALSE,
        !.classList = [e \in Elems |->
                          IF e \in Range(nodes) THEN @[e] \ DisabledClasses(opts)
                          ELSE @[e]],
        !.initialized = FALSE,
        !.latched = [e \in Elems |-> FALSE]]

\* faulty variant: resizeObserver.disconnect() without the `?.`, which throws
\* when resizeObserver is null
disableUnguarded(st, nodes, opts) ==
    IF ~st.resizeObserver.active THEN [st EXCEPT !.ok = FALSE]
    ELSE [DisconnectAll(st) EXCEPT
             !.resizeObserver = [active |-> FALSE, targets |-> {}],
             !.roPending = FALSE,
             !.curTimer = FALSE,
             !.classList = [e \in Elems |->
                               IF e \in Range(nodes) THEN @[e] \ DisabledClasses(opts)
                               ELSE @[e]],
             !.aosMeta = [e \in DOMAIN @ \ Range(nodes) |-> @[e]],
             !.initialized = FALSE,
             !.latched = [e \in Elems |-> FALSE]]

\* disable()
disable(st, nodes, opts) ==
    [DisconnectAll(st) EXCEPT
        !.resizeObserver = [active |-> FALSE, targets |-> {}],
        !.roPending = FALSE,
        !.curTimer = FALSE,
        !.classList = [e \in Elems |->
                          IF e \in Range(nodes) THEN @[e] \ DisabledClasses(opts)
                          ELSE @[e]],
        !.aosMeta = [e \in DOMAIN @ \ Range(nodes) |-> @[e]],
        !.initialized = FALSE,
        !.latched = [e \in Elems |-> FALSE]]

-----------------------------------------------------------------------------
(* Inputs *)

NoAttrs == [aos |-> JsStr(S_fade), rootMargin |-> JsNull, threshold |-> JsNull,
            once |-> JsNull, id |-> JsNull]

\* the markup of the pages the coordinator runs on: "plain" has every element
\* with the defaults; "mixed" has the first with data-aos-once="true" and the
\* others with their own data-aos-root-margin
Pages == {"plain", "mixed"}

PageMarkup(page) ==
    [e \in Elems |->
        IF page = "mixed" /\ e = 1 THEN [NoAttrs EXCEPT !.once = JsStr(S_true)]
        ELSE IF page = "mixed" THEN [NoAttrs EXCEPT !.rootMargin = JsStr(S_10px)]
        ELSE NoAttrs]

\* the settings objects init() is called with
InitSettings ==
    << [k \in {} |-> TRUE],
       [startEvent |-> "DOMContentLoaded"],
       [startEvent |-> "load"] >>

\* the module-level default options
DefaultOptions ==
    [rootMargin |-> JsStr(S_default_margin),
     threshold |-> JsNum(<<"0">>),
     once |-> JsBool(FALSE),
     startEvent |-> "DOMContentLoaded",
     animatedClassName |-> JsStr(S_aos_animate),
     initClassName |-> JsStr(S_aos_init),
     useClassNames |-> FALSE,
     disableMutationObserver |-> FALSE]

\* observer.isSupported(): 'MutationObserver' in window
isSupported == TRUE

-----------------------------------------------------------------------------
(* The coordinator's operations *)

Idle == UNCHANGED <<observerGroups, batch, mutations, callbackCalls, phase,
                    listening, attrs, elsewhere>>

Did(op) == lastOp' = op

Intersects(e) == inDoc[e] /\ visible[e]

Now(e) == IF Intersects(e) THEN "in" ELSE "out"

\* the entries the browser has queued on the live observers and not yet
\* delivered: a target is reported when first observed and whenever its state
\* has changed
DueEntries(o) ==
    {[target |-> e, isIntersecting |-> Intersects(e)] :
        e \in {x \in ioTargets[o] : ioLast[o][x] # Now(x)}}

\* disconnect() does not empty an observer's queue: what was queued on the
\* observers an operation disconnects is still delivered, later
Orphaned == staleEntries \cup UNION {DueEntries(o) : o \in ioLive}

\* the queue of orphaned entries after every live observer is disconnected:
\* the browser had queued any of the due entries, or had not computed them yet
StaleAfter ==
    {S \in SUBSET Orphaned : staleEntries \subseteq S /\ Cardinality(S) <= MaxStale}

\* a listener for a start event that has already been dispatched never runs
CanStillFire(startEvent) ==
    \/ startEvent = "DOMContentLoaded" /\ readyState = "loading"
    \/ startEvent = "load" /\ readyState # "complete"

\* faulty variant: the settings are merged over the defaults
MergedFromDefaults(opts, settings) ==
    [k \in DOMAIN opts |->
        IF k \in DOMAIN settings THEN settings[k] ELSE DefaultOptions[k]]

\* options = { ...options, ...settings }
Merged(opts, settings) ==
    [k \in DOMAIN opts |-> IF k \in DOMAIN settings THEN settings[k] ELSE opts[k]]

\* init(settings)
AosInitWith(settings) ==
    LET merged == Merged(options, settings)
        opts == IF ~merged.disableMutationObserver /\ ~isSupported
                THEN [merged EXCEPT !.disableMutationObserver = TRUE] ELSE merged
        isDocReady == readyState \in {"complete", "interactive"}
    IN  /\ options' = opts
        /\ IF ~opts.disableMutationObserver
           THEN mutationObservers' = IF mutationObservers < MaxWatchers
                                     THEN mutationObservers + 1 ELSE mutationObservers
           ELSE UNCHANGED mutationObservers
        /\ IF opts.startEvent = "DOMContentLoaded" /\ isDocReady
           THEN /\ Install(startObserving(Cur, elements, attrs, opts))
                /\ staleEntries' \in StaleAfter
                /\ Did("build")
                /\ UNCHANGED startListeners
           ELSE /\ IF CanStillFire(opts.startEvent)
                   THEN /\ startListeners[opts.startEvent] < MaxInstalled
                        /\ startListeners' =
                              [startListeners EXCEPT ![opts.startEvent] = @ + 1]
                   ELSE UNCHANGED startListeners
                /\ Install(Cur)
                /\ Did("init")
                /\ UNCHANGED staleEntries
        /\ UNCHANGED <<readyState, inDoc, visible, timers, moPending>>
        /\ Idle

AosInit(i) == AosInitWith(InitSettings[i])

\* refresh(initialize)
AosRefresh(initialize) ==
    /\ Install(refresh(Cur, initialize, elements, attrs, options))
    /\ staleEntries' \in (IF initialize \/ initialized THEN StaleAfter ELSE {staleEntries})
    /\ Did(IF initialize \/ initialized THEN "build" ELSE "refresh")
    /\ UNCHANGED <<readyState, inDoc, visible, options, startListeners,
                   mutationObservers, timers, moPending>>
    /\ Idle

\* disable()
AosDisable ==
    /\ Install(disable(Cur, elements, options))
    /\ staleEntries' \in StaleAfter
    /\ Did("disable")
    /\ UNCHANGED <<readyState, inDoc, visible, options, startListeners,
                   mutationObservers, timers, moPending>>
    /\ Idle

\* a start event is dispatched and runs the listeners init() added for it
StartEvent(name, before, after) ==
    /\ readyState = before
    /\ readyState' = after
    /\ Install(startObservingTimes(Cur, startListeners[name], elements, attrs, options))
    /\ staleEntries' \in (IF startListeners[name] > 0 THEN StaleAfter ELSE {staleEntries})
    /\ startListeners' = [startListeners EXCEPT ![name] = 0]
    /\ Did(IF startListeners[name] > 0 THEN "build" ELSE "other")
    /\ UNCHANGED <<inDoc, visible, options, mutationObservers, timers, moPending>>
    /\ Idle

DOMContentLoaded == StartEvent("DOMContentLoaded", "loading", "interactive")

WindowLoad == StartEvent("load", "interactive", "complete")

-----------------------------------------------------------------------------
(* The browser: scrolling, layout, DOM changes, and the callbacks it runs *)

\* the page is scrolled: an element moves into or out of the root box
Scroll(e) ==
    /\ inDoc[e]
    /\ visible' = [visible EXCEPT ![e] = ~@]
    /\ Did("other")
    /\ UNCHANGED <<readyState, inDoc, classList, aosMeta, options,
                   initialized, observerInstances, resizeObserver, startListeners,
                   mutationObservers, ioLive, ioConfig, ioTargets, ioLast,
                   staleEntries, roPending, curTimer, timers, moPending,
                   aosInCount, latched, eventLog>>
    /\ Idle

\* the browser computes a live observer's intersections and delivers the
\* entries that are due to handleIntersection
Notify(o) ==
    /\ o \in ioLive
    /\ DueEntries(o) # {}
    /\ LET due == {x.target : x \in DueEntries(o)}
           entries == [i \in 1..Cardinality(due) |->
                          [target |-> DocOrder(due)[i],
                           isIntersecting |-> Intersects(DocOrder(due)[i])]]
           seen == [Cur EXCEPT !.eventLog = <<>>,
                               !.ioLast[o] =
                       [e \in Elems |-> IF e \in due THEN Now(e) ELSE @[e]]]
       IN  Install(handleIntersection(seen, entries, o))
    /\ Did("other")
    /\ UNCHANGED <<readyState, inDoc, visible, options, startListeners,
                   mutationObservers, staleEntries, timers, moPending>>
    /\ Idle

\* the browser delivers an entry of an observer that has been disconnected
StaleNotify(entry) ==
    /\ entry \in staleEntries
    /\ Install(handleIntersection([Cur EXCEPT !.eventLog = <<>>], <<entry>>, 0))
    /\ staleEntries' = staleEntries \ {entry}
    /\ Did("other")
    /\ UNCHANGED <<readyState, inDoc, visible, options, startListeners,
                   mutationObservers, timers, moPending>>
    /\ Idle

\* a DOM node as the watcher reads it: whether it has a dataset (an element
\* has, a text node has not), its data-aos value, its element children
TextNode == [dataset |-> FALSE, aos |-> JsNull, children |-> <<>>]

ElementNode(aos, kids) == [dataset |-> TRUE, aos |-> aos, children |-> kids]

\* containsAOSNode(nodes): dataset.aos must be truthy
RECURSIVE containsAOSNode(_)
containsAOSNode(nodes) ==
    IF nodes = <<>> THEN FALSE
    ELSE IF Head(nodes).dataset /\ Truthy(Head(nodes).aos) THEN TRUE
    ELSE IF containsAOSNode(Head(nodes).children) THEN TRUE
    ELSE containsAOSNode(Tail(nodes))

\* check(mutations): the calls of callback it makes
RECURSIVE check(_)
check(records) ==
    IF records = <<>> THEN 0
    ELSE (IF containsAOSNode(Head(records).addedNodes \o Head(records).removedNodes)
          THEN 1 ELSE 0) + check(Tail(records))

\* the record of attaching or detaching the trigger element e
RecordOf(e) ==
    [addedNodes |-> <<ElementNode(attrs[e].aos, <<>>)>>, removedNodes |-> <<>>]

\* a script attaches or detaches a trigger element
Mutate(e) ==
    /\ inDoc' = [inDoc EXCEPT ![e] = ~@]
    /\ visible' = [visible EXCEPT ![e] = FALSE]
    /\ IF mutationObservers > 0 /\ check(<<RecordOf(e)>>) > 0
       THEN /\ moPending < MaxRecords
            /\ moPending' = moPending + 1
       ELSE UNCHANGED moPending
    /\ roPending' = (roPending \/ (resizeObserver.active /\ e \in resizeObserver.targets))
    /\ Did("other")
    /\ UNCHANGED <<readyState, classList, aosMeta, options,
                   initialized, observerInstances, resizeObserver, startListeners,
                   mutationObservers, ioLive, ioConfig, ioTargets, ioLast,
                   staleEntries, curTimer, timers, aosInCount, latched, eventLog>>
    /\ Idle

\* check(mutations) in every installed MutationObserver: callback() once for
\* each record that holds a trigger node; callback is refresh
MutationCallback ==
    /\ moPending > 0
    /\ Install(refreshTimes(Cur, mutationObservers * moPending,
                            elements, attrs, options))
    /\ staleEntries' \in (IF initialized THEN StaleAfter ELSE {staleEntries})
    /\ moPending' = 0
    /\ Did(IF initialized THEN "build" ELSE "other")
    /\ UNCHANGED <<readyState, inDoc, visible, options, startListeners,
                   mutationObservers, timers>>
    /\ Idle

\* an observed element's box changes size
Resize ==
    /\ resizeObserver.active
    /\ \E e \in resizeObserver.targets : inDoc[e]
    /\ ~roPending
    /\ roPending' = TRUE
    /\ Did("other")
    /\ UNCHANGED <<readyState, inDoc, classList, aosMeta, visible, options,
                   initialized, observerInstances, resizeObserver, startListeners,
                   mutationObservers, ioLive, ioConfig, ioTargets, ioLast,
                   staleEntries, curTimer, timers, moPending, aosInCount, latched, eventLog>>
    /\ Idle

\* faulty variant: the callback is not debounced and rebuilds at once
ResizeCallbackLeading ==
    /\ roPending
    /\ Install(IF initialized
               THEN createObservers([Cur EXCEPT !.roPending = FALSE],
                                    elements, attrs, options)
               ELSE [Cur EXCEPT !.roPending = FALSE])
    /\ staleEntries' \in (IF initialized THEN StaleAfter ELSE {staleEntries})
    /\ Did(IF initialized THEN "build" ELSE "other")
    /\ UNCHANGED <<readyState, inDoc, visible, options, startListeners,
                   mutationObservers, timers, moPending>>
    /\ Idle

\* the ResizeObserver callback: the debounced function (re)starts its timer
ResizeCallback ==
    /\ roPending
    /\ roPending' = FALSE
    /\ IF curTimer THEN UNCHANGED <<curTimer, timers>>
       ELSE /\ timers < MaxTimers
            /\ timers' = timers + 1
            /\ curTimer' = TRUE
    /\ Did("other")
    /\ UNCHANGED <<readyState, inDoc, classList, aosMeta, visible, options,
                   initialized, observerInstances, resizeObserver, startListeners,
                   mutationObservers, ioLive, ioConfig, ioTargets, ioLast,
                   staleEntries, moPending, aosInCount, latched, eventLog>>
    /\ Idle

\* a debounce timer (150 ms) ends: if (initialized) createObservers().
\* current tells whether it is the timer of the live resize observer's closure
DebounceTimer(current) ==
    /\ timers > 0
    /\ current => curTimer
    /\ ~current => timers > (IF curTimer THEN 1 ELSE 0)
    /\ timers' = timers - 1
    /\ LET st == [Cur EXCEPT !.curTimer = curTimer /\ ~current]
       IN  Install(IF initialized
                   THEN createObservers(st, elements, attrs, options) ELSE st)
    /\ staleEntries' \in (IF initialized THEN StaleAfter ELSE {staleEntries})
    /\ Did(IF initialized THEN "build" ELSE "other")
    /\ UNCHANGED <<readyState, inDoc, visible, options, startListeners,
                   mutationObservers, moPending>>
    /\ Idle

-----------------------------------------------------------------------------
(* The coordinator on a page *)

\* no call of getOption has been made
NoOptionCall ==
    /\ optionCall = [attr |-> JsNull, fallback |-> JsNull]
    /\ returned = JsNull

\* the page holds no accordion
NoAccordion ==
    /\ allowMultiple = FALSE
    /\ expanded = <<>>
    /\ disabled = <<>>
    /\ changed = <<>>
    /\ animation = <<>>
    /\ vetoes = {}

\* the page does not load the Lenis-driven AnimateOnScroll
Unloaded ==
    [exists |-> FALSE, initialized |-> FALSE,
     options |-> [once |-> FALSE, mirror |-> FALSE], elements |-> <<>>,
     observer |-> FALSE, lenis |-> FALSE, resizeListener |-> FALSE]

NoLenis ==
    /\ aosInstance = Unloaded
    /\ marks = <<>>
    /\ animated = {}
    /\ scrollTop = 0
    /\ refreshTimers = {}

\* the page has no ps-dropdown
NoDropdown ==
    /\ open = <<>>
    /\ documentListeners = {}
    /\ listenerTimers = <<>>
    /\ dispatched = <<>>

\* the page does not load the floating-label utility
NoLabels ==
    /\ labelsInitialized = FALSE
    /\ containers = <<>>
    /\ attached = <<>>
    /\ marked = <<>>
    /\ filled = <<>>
    /\ inputs = {}
    /\ destroyCount = 0

\* the page has no hc-modal
NoModals ==
    /\ modalOpen = <<>>
    /\ openChanged = {}
    /\ connected = {}
    /\ noModal = {}
    /\ bodyFixed = FALSE
    /\ everOpen = {}

NoWidgets == NoDropdown /\ NoLabels /\ NoModals

Elsewhere == NoOptionCall /\ NoAccordion /\ NoLenis /\ NoWidgets

Blank ==
    /\ classList = [e \in Elems |-> {}]
    /\ aosMeta = [e \in {} |-> 0]
    /\ initialized = FALSE
    /\ observerInstances = <<>>
    /\ resizeObserver = [active |-> FALSE, targets |-> {}]
    /\ startListeners = [DOMContentLoaded |-> 0, load |-> 0]
    /\ mutationObservers = 0
    /\ ioLive = {}
    /\ ioConfig = [o \in ObsIds |-> NoConfig]
    /\ ioTargets = [o \in ObsIds |-> {}]
    /\ ioLast = [o \in ObsIds |-> NoTargets]
    /\ staleEntries = {}
    /\ roPending = FALSE
    /\ curTimer = FALSE
    /\ timers = 0
    /\ moPending = 0
    /\ aosInCount = [e \in Elems |-> 0]
    /\ latched = [e \in Elems |-> FALSE]
    /\ lastOp = "other"
    /\ eventLog = <<>>
    /\ observerGroups = <<>>
    /\ batch = <<>>
    /\ mutations = <<>>
    /\ callbackCalls = 0
    /\ eventListeners = [name \in EventNames |-> 0]

Init ==
    /\ Blank
    /\ Elsewhere
    /\ options = DefaultOptions
    /\ inDoc = [e \in Elems |-> TRUE]
    /\ visible = [e \in Elems |-> FALSE]
    /\ readyState = "loading"
    /\ attrs \in {PageMarkup(page) : page \in Pages}
    /\ listening = FALSE
    /\ phase = "coordinator"

Next ==
    \/ \E i \in 1..Len(InitSettings) : AosInit(i)
    \/ \E initialize \in BOOLEAN : AosRefresh(initialize)
    \/ AosDisable
    \/ DOMContentLoaded
    \/ WindowLoad
    \/ \E e \in Scrollable : Scroll(e)
    \/ \E o \in ObsIds : Notify(o)
    \/ \E entry \in staleEntries : StaleNotify(entry)
    \/ \E e \in Detachable : Mutate(e)
    \/ MutationCallback
    \/ Resize
    \/ ResizeCallback
    \/ \E current \in BOOLEAN : DebounceTimer(current)

Spec == Init /\ [][Next]_vars


-----------------------------------------------------------------------------
(* prepare called directly, as its unit tests call it *)

\* attribute values the harness stamps on the elements
S_a == <<"a">>
S_a_bar_b == <<"a", "|", "b">>
S_c == <<"c">>
S_b_bar_c == <<"b", "|", "c">>
S_half == <<"0", ".", "5">>
S_half0 == <<"0", ".", "5", "0">>

RootMargins == {JsNull, JsStr(S_a), JsStr(S_a_bar_b), JsStr(S_10px)}

Thresholds == {JsNull, JsStr(S_c), JsStr(S_b_bar_c), JsStr(S_half), JsStr(S_half0)}

GlobalRootMargins == {JsStr(S_default_margin), JsStr(S_a)}

S_a_b == <<"a", " ", "b">>
S_a__b == <<"a", " ", " ", "b">>

\* the data-aos values the first element is given: one name, the empty
\* value, two names with one space and with two spaces between them
TriggerValues == {JsStr(S_fade), JsStr(<<>>), JsStr(S_a_b), JsStr(S_a__b)}

InitPrepare ==
    /\ Blank
    /\ Elsewhere
    /\ inDoc = [e \in Elems |-> TRUE]
    /\ visible = [e \in Elems |-> FALSE]
    /\ readyState = "complete"
    /\ attrs \in {[f EXCEPT ![1].aos = a] :
                     f \in [Elems -> {[NoAttrs EXCEPT !.rootMargin = r,
                                                      !.threshold = t] :
                                         r \in RootMargins, t \in Thresholds}],
                     a \in TriggerValues}
    /\ \E r \in GlobalRootMargins, u \in BOOLEAN :
          options = [DefaultOptions EXCEPT !.rootMargin = r, !.useClassNames = u]
    /\ listening = FALSE
    /\ phase = "ready"

\* observerGroups = prepare(elements(), options), twice in a row
PrepareCall ==
    /\ phase \in {"ready", "done"}
    /\ LET p == prepare(elements, attrs, classList, aosMeta, options)
       IN  /\ classList' = p.classList
           /\ aosMeta' = p.aosMeta
           /\ observerGroups' = p.groups
    /\ phase' = IF phase = "ready" THEN "done" ELSE "again"
    /\ UNCHANGED <<readyState, attrs, inDoc, visible, options, initialized,
                   observerInstances, resizeObserver, startListeners,
                   mutationObservers, ioLive, ioConfig, ioTargets, ioLast,
                   staleEntries, roPending, curTimer, timers, moPending,
                   listening, aosInCount, latched, lastOp, eventLog, batch,
                   mutations, callbackCalls,
                   elsewhere>>

NextPrepare == PrepareCall

SpecPrepare == InitPrepare /\ [][NextPrepare]_vars

-----------------------------------------------------------------------------
(* Scenario A: one trigger element with the default options, in view when *)
(* init() runs, on a page that is not scrolled, resized or changed        *)

InitScenarioA ==
    /\ Blank
    /\ Elsewhere
    /\ inDoc = [e \in Elems |-> e = 1]
    /\ visible = [e \in Elems |-> e = 1]
    /\ options = DefaultOptions
    /\ readyState \in {"loading", "interactive", "complete"}
    /\ attrs = PageMarkup("plain")
    /\ listening = TRUE
    /\ phase = "coordinator"

\* the page's one call of init(), with the default start event
InitOnce ==
    /\ mutationObservers = 0
    /\ \E i \in {1, 2} : AosInit(i)

NextScenarioA ==
    \/ InitOnce
    \/ DOMContentLoaded
    \/ WindowLoad
    \/ \E o \in ObsIds : Notify(o)
    \/ \E entry \in staleEntries : StaleNotify(entry)
    \/ ResizeCallback
    \/ \E current \in BOOLEAN : DebounceTimer(current)

SpecScenarioA == InitScenarioA /\ [][NextScenarioA]_vars

\* a static document: any of the pages, its elements in view or not, never
\* scrolled, resized or changed
InitStatic ==
    /\ Blank
    /\ Elsewhere
    /\ inDoc = [e \in Elems |-> TRUE]
    /\ visible \in [Elems -> BOOLEAN]
    /\ options = DefaultOptions
    /\ readyState \in {"loading", "complete"}
    /\ attrs \in {PageMarkup(page) : page \in Pages}
    /\ listening = FALSE
    /\ phase = "coordinator"

\* the browser runs every callback that is due: the start events, the
\* observers' callbacks and the debounce timers
BrowserDelivers ==
    /\ WF_vars(DOMContentLoaded)
    /\ WF_vars(WindowLoad)
    /\ WF_vars(\E o \in ObsIds : Notify(o))
    /\ WF_vars(\E entry \in staleEntries : StaleNotify(entry))
    /\ WF_vars(ResizeCallback)
    /\ WF_vars(\E current \in BOOLEAN : DebounceTimer(current))

SpecStatic == InitStatic /\ [][NextScenarioA]_vars /\ BrowserDelivers

-----------------------------------------------------------------------------
(* The classes of the elements: a page whose markup gives its trigger     *)
(* elements no class, and a script that configures the class names        *)

S_seen == <<"s", "e", "e", "n">>

\* the settings the script calls init() with
ClassSettings ==
    { [k \in {} |-> TRUE],
      [useClassNames |-> TRUE],
      [initClassName |-> JsStr(S_seen)],
      [animatedClassName |-> JsStr(S_seen)] }

InitClasses ==
    /\ Blank
    /\ Elsewhere
    /\ inDoc = [e \in Elems |-> TRUE]
    /\ visible = [e \in Elems |-> FALSE]
    /\ options = DefaultOptions
    /\ readyState = "complete"
    /\ attrs = PageMarkup("plain")
    /\ listening = FALSE
    /\ phase = "coordinator"

\* init(settings) with one of the class settings
InitClassNames ==
    \E settings \in ClassSettings : AosInitWith(settings)

NextClasses ==
    \/ InitClassNames
    \/ AosDisable
    \/ \E e \in Scrollable : Scroll(e)
    \/ \E o \in ObsIds : Notify(o)

SpecClasses == InitClasses /\ [][NextClasses]_vars

-----------------------------------------------------------------------------
(* handleIntersection called directly, as its unit tests call it: on      *)
(* elements a prepare call stamped, with an observer that observes them   *)

S_hero == <<"h", "e", "r", "o">>
S_007 == <<"0", "0", "7">>

\* the data-aos-id values the first element is given
HandlerIds == {JsNull, JsStr(S_hero), JsStr(S_007), JsStr(<<"0">>)}

\* the data-aos-once values the first element is given
HandlerOnces == {JsNull, JsStr(S_true)}

\* the longest batch of entries one call is given
MaxBatch == 2

\* the IntersectionObserverEntry values of a call: target and isIntersecting
Entries == [target : Elems, isIntersecting : BOOLEAN]

Batches == UNION {[1..n -> Entries] : n \in 1..MaxBatch}

InitHandler ==
    /\ Blank
    /\ Elsewhere
    /\ inDoc = [e \in Elems |-> TRUE]
    /\ visible = [e \in Elems |-> FALSE]
    /\ readyState = "complete"
    /\ options = DefaultOptions
    /\ attrs \in {[PageMarkup("plain") EXCEPT ![1].once = c, ![1].id = d] :
                     c \in HandlerOnces, d \in HandlerIds}
    /\ listening = TRUE
    /\ phase = "markup"

\* the set-up: prepare stamps some of the elements, and the observer the
\* handler is given observes all of them
Stamp ==
    /\ phase = "markup"
    /\ \E S \in SUBSET Elems :
          LET p == prepare(DocOrder(S), attrs, classList, aosMeta, options)
          IN  /\ classList' = p.classList
              /\ aosMeta' = p.aosMeta
    /\ ioLive' = {1}
    /\ ioTargets' = [ioTargets EXCEPT ![1] = Elems]
    /\ phase' = "first"
    /\ UNCHANGED <<readyState, attrs, inDoc, visible, options, initialized,
                   observerInstances, resizeObserver, startListeners,
                   mutationObservers, ioConfig, ioLast, staleEntries,
                   roPending, curTimer, timers, moPending, listening,
                   aosInCount, latched, lastOp, eventLog, observerGroups,
                   batch, mutations, callbackCalls,
                   elsewhere>>

\* handleIntersection(entries, observer), twice in a row
HandlerCall ==
    /\ phase \in {"first", "second"}
    /\ \E b \in Batches :
          /\ batch' = b
          /\ Install(handleIntersection([Cur EXCEPT !.eventLog = <<>>], b, 1))
    /\ phase' = IF phase = "first" THEN "second" ELSE "called"
    /\ UNCHANGED <<readyState, attrs, inDoc, visible, options, startListeners,
                   mutationObservers, staleEntries, timers, moPending,
                   listening, lastOp, observerGroups, mutations,
                   callbackCalls,
                   elsewhere>>

\* the callbacks a page stores for one event name
MaxCallbacks == 1

\* on(eventName, callback)
AosOn(eventName) ==
    /\ phase \in {"markup", "first", "second", "called"}
    /\ eventListeners[eventName] < MaxCallbacks
    /\ eventListeners' = [eventListeners EXCEPT ![eventName] = @ + 1]
    /\ UNCHANGED <<aosVars, phase, optionVars, accordionVars, lenisVars, widgetVars>>

NextHandler ==
    \/ Stamp
    \/ HandlerCall
    \/ \E eventName \in EventNames : AosOn(eventName)

SpecHandler == InitHandler /\ [][NextHandler]_vars

-----------------------------------------------------------------------------
(* The mutation watcher on its own: ready(selector, fn) with a callback   *)
(* that counts its calls, then one batch of records delivered to check    *)

\* the most records one delivered batch holds
MaxBatchRecords == 2

\* nodes without children: a text node, an element without data-aos, with
\* data-aos="fade" and with data-aos=""
Leaves ==
    {TextNode, ElementNode(JsNull, <<>>), ElementNode(JsStr(S_fade), <<>>),
     ElementNode(JsStr(<<>>), <<>>)}

\* the nodes a record adds or removes: a leaf, or a wrapper around one
WatchedNodes == Leaves \cup {ElementNode(JsNull, <<n>>) : n \in Leaves}

NodeLists == {<<>>} \cup {<<n>> : n \in WatchedNodes}

Records == [addedNodes : NodeLists, removedNodes : NodeLists]

MutationBatches == UNION {[1..n -> Records] : n \in 1..MaxBatchRecords}

InitWatcher ==
    /\ Blank
    /\ Elsewhere
    /\ inDoc = [e \in Elems |-> TRUE]
    /\ visible = [e \in Elems |-> FALSE]
    /\ readyState = "complete"
    /\ options = DefaultOptions
    /\ attrs = PageMarkup("plain")
    /\ listening = FALSE
    /\ phase = "unwatched"

\* observer.ready('[data-aos]', fn)
Ready ==
    /\ phase = "unwatched"
    /\ mutationObservers' = mutationObservers + 1
    /\ phase' = "watching"
    /\ UNCHANGED <<readyState, attrs, inDoc, classList, aosMeta, visible,
                   options, initialized, observerInstances, resizeObserver,
                   startListeners, ioLive, ioConfig, ioTargets, ioLast,
                   staleEntries, roPending, curTimer, timers, moPending,
                   listening, aosInCount, latched, lastOp, eventLog,
                   observerGroups, batch, mutations, callbackCalls,
                   elsewhere>>

\* the browser delivers one batch of records to the watcher's observer
Deliver ==
    /\ phase = "watching"
    /\ \E b \in MutationBatches :
          /\ mutations' = b
          /\ callbackCalls' = check(b)
    /\ phase' = "checked"
    /\ UNCHANGED <<readyState, attrs, inDoc, classList, aosMeta, visible,
                   options, initialized, observerInstances, resizeObserver,
                   startListeners, mutationObservers, ioLive, ioConfig,
                   ioTargets, ioLast, staleEntries, roPending, curTimer, timers,
                   moPending, listening, aosInCount, latched, lastOp, eventLog,
                   observerGroups, batch,
                   elsewhere>>

NextWatcher ==
    \/ Ready
    \/ Deliver

SpecWatcher == InitWatcher /\ [][NextWatcher]_vars

-----------------------------------------------------------------------------
(* getOption called directly, as its unit tests call it *)

S_blank == <<" ">>
S_7 == <<"7">>
S_sp7 == <<" ", "7">>
S_neg5 == <<"-", "5">>

\* the states of the attribute data-aos-{key}: absent, or one of these values
OptionAttrs ==
    {JsNull, JsStr(S_true), JsStr(S_false), JsStr(<<>>), JsStr(S_blank),
     JsStr(S_7), JsStr(S_sp7), JsStr(S_007), JsStr(S_neg5), JsStr(S_half0),
     JsStr(S_hero), JsStr(S_10px)}

\* the fallbacks the callers pass
OptionFallbacks ==
    {JsNull, JsBool(FALSE), JsBool(TRUE), JsNum(<<"0">>), JsStr(S_default_margin)}

\* the engine is not running on the page of this harness
AosUnused ==
    /\ Blank
    /\ inDoc = [e \in Elems |-> TRUE]
    /\ visible = [e \in Elems |-> FALSE]
    /\ readyState = "complete"
    /\ options = DefaultOptions
    /\ attrs = PageMarkup("plain")
    /\ listening = FALSE

InitGetOption ==
    /\ AosUnused
    /\ NoAccordion
    /\ NoLenis
    /\ NoWidgets
    /\ optionCall \in [attr : OptionAttrs, fallback : OptionFallbacks]
    /\ returned = JsNull
    /\ phase = "ready"

\* getOption(element, key, fallback)
GetOptionCall ==
    /\ phase = "ready"
    /\ returned' = getOption(optionCall.attr, optionCall.fallback)
    /\ phase' = "returned"
    /\ UNCHANGED <<exceptOption, optionCall>>

NextGetOption == GetOptionCall

SpecGetOption == InitGetOption /\ [][NextGetOption]_vars

-----------------------------------------------------------------------------
(* hc-accordion with its hc-accordion-item elements, after the first      *)
(* render: the slot has reported the items to the accordion               *)

\* the items slotted into the accordion
NumItems == 3

Items == 1..NumItems

BeforeEvents == {"hc-before-expand", "hc-before-collapse"}

\* the init dictionary of the item's hc-toggle event names bubbles, composed
\* and detail, and no `cancelable`
ToggleCancelable == FALSE

\* the init dictionary of hc-before-expand and hc-before-collapse
BeforeCancelable == TRUE

\* EventTarget.dispatchEvent: false only when the event is cancelable and a
\* listener has called preventDefault() on it
dispatchEvent(cancelable, prevented) == ~(cancelable /\ prevented)

\* item.expanded = value on every item of S: Lit requests an update when the
\* value changes
Assigned(S, value) ==
    /\ expanded' = [j \in Items |-> IF j \in S THEN value ELSE expanded[j]]
    /\ changed' = [j \in Items |->
                      changed[j] \/ (j \in S /\ expanded[j] # value)]

\* collapseOtherItems(exceptItem): the items it sets expanded = false on
otherExpandedItems(exceptItem) ==
    {j \in Items : j # exceptItem /\ expanded[j] /\ ~disabled[j]}

\* handleItemToggle(e) up to its return: whether it goes on past the
\* before-event (it calls e.preventDefault() on the hc-toggle event when not)
Allowed(willExpand) ==
    dispatchEvent(BeforeCancelable,
                  (IF willExpand THEN "hc-before-expand" ELSE "hc-before-collapse")
                      \in vetoes)

\* a click on the header of item i: HcAccordionItem.handleToggle, with the
\* accordion's handleItemToggle run by the hc-toggle event it dispatches
HeaderClick(i) ==
    /\ ~disabled[i]
    /\ LET willExpand == ~expanded[i]
           others == IF willExpand /\ Allowed(willExpand) /\ ~allowMultiple
                     THEN otherExpandedItems(i) ELSE {}
           toggles == dispatchEvent(ToggleCancelable, ~Allowed(willExpand))
       IN  /\ expanded' = [j \in Items |->
                              IF j = i THEN (IF toggles THEN ~expanded[i]
                                             ELSE expanded[i])
                              ELSE IF j \in others THEN FALSE
                              ELSE expanded[j]]
           /\ changed' = [j \in Items |->
                             changed[j] \/ (j = i /\ toggles) \/ j \in others]
    /\ UNCHANGED <<allowMultiple, disabled, animation, vetoes>>
    /\ UNCHANGED exceptAccordion

\* a script assigns item.expanded = value
SetExpanded(i, value) ==
    /\ expanded[i] # value
    /\ Assigned({i}, value)
    /\ UNCHANGED <<allowMultiple, disabled, animation, vetoes>>
    /\ UNCHANGED exceptAccordion

\* a script assigns item.disabled = value
SetDisabled(i, value) ==
    /\ disabled[i] # value
    /\ disabled' = [disabled EXCEPT ![i] = value]
    /\ UNCHANGED <<allowMultiple, expanded, changed, animation, vetoes>>
    /\ UNCHANGED exceptAccordion

\* HcAccordionItem.updated with 'expanded' among the changed properties:
\* animateExpand() or animateCollapse(), which cancels a running animation
Updated(i) ==
    /\ changed[i]
    /\ changed' = [changed EXCEPT ![i] = FALSE]
    /\ animation' = [animation EXCEPT ![i] = IF expanded[i] THEN "expand"
                                             ELSE "collapse"]
    /\ UNCHANGED <<allowMultiple, expanded, disabled, vetoes>>
    /\ UNCHANGED exceptAccordion

\* animation.finished resolves: hc-expand or hc-collapse is dispatched
AnimationFinished(i) ==
    /\ animation[i] # "none"
    /\ animation' = [animation EXCEPT ![i] = "none"]
    /\ UNCHANGED <<allowMultiple, expanded, disabled, changed, vetoes>>
    /\ UNCHANGED exceptAccordion

\* accordion.collapseAll()
CollapseAll ==
    /\ Assigned({j \in Items : ~disabled[j] /\ expanded[j]}, FALSE)
    /\ UNCHANGED <<allowMultiple, disabled, animation, vetoes>>
    /\ UNCHANGED exceptAccordion

\* accordion.expandAll()
ExpandAll ==
    /\ allowMultiple
    /\ Assigned({j \in Items : ~disabled[j] /\ ~expanded[j]}, TRUE)
    /\ UNCHANGED <<allowMultiple, disabled, animation, vetoes>>
    /\ UNCHANGED exceptAccordion

\* the accordion's items as first rendered: collapsed and enabled
Rendered ==
    /\ expanded = [i \in Items |-> FALSE]
    /\ disabled = [i \in Items |-> FALSE]
    /\ changed = [i \in Items |-> FALSE]
    /\ animation = [i \in Items |-> "none"]

InitAccordion ==
    /\ AosUnused
    /\ phase = "accordion"
    /\ NoOptionCall
    /\ NoLenis
    /\ NoWidgets
    /\ allowMultiple \in BOOLEAN
    /\ vetoes \in SUBSET BeforeEvents
    /\ Rendered

NextAccordion ==
    \/ \E i \in Items : HeaderClick(i)
    \/ \E i \in Items, value \in BOOLEAN : SetExpanded(i, value)
    \/ \E i \in Items, value \in BOOLEAN : SetDisabled(i, value)
    \/ \E i \in Items : Updated(i)
    \/ \E i \in Items : AnimationFinished(i)
    \/ CollapseAll
    \/ ExpandAll

SpecAccordion == InitAccordion /\ [][NextAccordion]_vars

\* an accordion in single-expand mode on a page without cancelling
\* listeners, whose items are clicked and expanded by script
InitSingle ==
    /\ InitAccordion
    /\ ~allowMultiple
    /\ vetoes = {}

NextSingle ==
    \/ \E i \in Items : HeaderClick(i)
    \/ \E i \in Items : SetExpanded(i, TRUE)
    \/ \E i \in Items : Updated(i)
    \/ \E i \in Items : AnimationFinished(i)

SpecSingle == InitSingle /\ [][NextSingle]_vars

-----------------------------------------------------------------------------
(* The Lenis-driven AnimateOnScroll: a singleton whose handleScroll       *)
(* compares the scroll position with positions computed by refresh()      *)

\* the scroll positions of the page
MaxScroll == 4

ScrollPositions == 0..MaxScroll

\* getPositionIn: the scroll position at which the element's anchor enters
PositionIn(e) == e

\* getPositionOut: the scroll position at which the element's bottom edge
\* has passed the top of the viewport
PositionOut(e) == e + 2

\* the values of data-aos-once and of data-aos-mirror on an element
Flags == {"absent", "true", "false"}

\* attr !== null ? attr === 'true' : option
Flag(attr, option) == IF attr # "absent" THEN attr = "true" ELSE option

\* AnimateOnScroll.refresh(): the items are built anew, none animated
lenisRefresh(inst) ==
    [inst EXCEPT !.elements =
        [e \in Elems |-> [once |-> Flag(marks[e].once, inst.options.once),
                          mirror |-> Flag(marks[e].mirror, inst.options.mirror),
                          animated |-> FALSE]]]

\* the branch handleScroll takes for one item at scroll position y
Branch(item, e, y) ==
    IF item.once /\ item.animated THEN "skip"
    ELSE IF item.mirror /\ y >= PositionOut(e) THEN "out"
    ELSE IF y >= PositionIn(e) THEN "in"
    ELSE IF ~item.once THEN "back"
    ELSE "none"

\* AnimateOnScroll.handleScroll() at scroll position y: the instance
handleScrollItems(inst, y) ==
    [inst EXCEPT !.elements =
        [e \in DOMAIN inst.elements |->
            LET item == inst.elements[e]
                taken == Branch(item, e, y)
            IN  IF taken = "in" THEN [item EXCEPT !.animated = TRUE]
                ELSE IF taken \in {"out", "back"}
                     THEN [item EXCEPT !.animated = FALSE]
                ELSE item]]

\* AnimateOnScroll.handleScroll() at scroll position y: the elements that
\* carry aos-animate afterwards
handleScrollClasses(inst, classes, y) ==
    LET taken(e) == Branch(inst.elements[e], e, y)
    IN  (classes \ {e \in DOMAIN inst.elements : taken(e) \in {"out", "back"}})
            \cup {e \in DOMAIN inst.elements : taken(e) = "in"}

\* refresh() followed by handleScroll(), as init(), the debounced handlers
\* and the exported refresh() run them
RefreshAndScroll(inst) ==
    /\ aosInstance' = handleScrollItems(lenisRefresh(inst), scrollTop)
    /\ animated' = handleScrollClasses(lenisRefresh(inst), animated, scrollTop)

\* the exported init(options) on a loaded document: the singleton is made
\* and its init() runs
LenisInit(once, mirror) ==
    /\ ~aosInstance.exists
    /\ ~aosInstance.resizeListener
    /\ RefreshAndScroll([aosInstance EXCEPT
                            !.exists = TRUE,
                            !.options = [once |-> once, mirror |-> mirror],
                            !.lenis = TRUE,
                            !.observer = TRUE,
                            !.resizeListener = TRUE,
                            !.initialized = TRUE])
    /\ UNCHANGED <<marks, scrollTop, refreshTimers>>
    /\ UNCHANGED exceptLenis

\* Lenis reports a scroll to position y
LenisScroll(y) ==
    /\ aosInstance.lenis
    /\ y # scrollTop
    /\ scrollTop' = y
    /\ aosInstance' = handleScrollItems(aosInstance, y)
    /\ animated' = handleScrollClasses(aosInstance, animated, y)
    /\ UNCHANGED <<marks, refreshTimers>>
    /\ UNCHANGED exceptLenis

\* the window is resized: the debounced handler restarts its timer
LenisResize ==
    /\ aosInstance.resizeListener
    /\ "resize" \notin refreshTimers
    /\ refreshTimers' = refreshTimers \cup {"resize"}
    /\ UNCHANGED <<aosInstance, marks, animated, scrollTop>>
    /\ UNCHANGED exceptLenis

\* the MutationObserver on document.body reports added or removed nodes
LenisMutation ==
    /\ aosInstance.observer
    /\ "mutation" \notin refreshTimers
    /\ refreshTimers' = refreshTimers \cup {"mutation"}
    /\ UNCHANGED <<aosInstance, marks, animated, scrollTop>>
    /\ UNCHANGED exceptLenis

\* a debounce timer runs out: refresh() and handleScroll() on the instance
\* the handler was made for
LenisTimer(handler) ==
    /\ handler \in refreshTimers
    /\ refreshTimers' = refreshTimers \ {handler}
    /\ RefreshAndScroll(aosInstance)
    /\ UNCHANGED <<marks, scrollTop>>
    /\ UNCHANGED exceptLenis

\* the exported refresh()
LenisRefresh ==
    /\ aosInstance.exists
    /\ RefreshAndScroll(aosInstance)
    /\ UNCHANGED <<marks, scrollTop, refreshTimers>>
    /\ UNCHANGED exceptLenis

\* the exported destroy(): the instance's destroy(), and the singleton is
\* forgotten; the window's resize listener and the running timers stay
LenisDestroy ==
    /\ aosInstance.exists
    /\ aosInstance' = [aosInstance EXCEPT !.exists = FALSE,
                                          !.lenis = FALSE,
                                          !.observer = FALSE,
                                          !.elements = <<>>,
                                          !.initialized = FALSE]
    /\ animated' = animated \ DOMAIN aosInstance.elements
    /\ UNCHANGED <<marks, scrollTop, refreshTimers>>
    /\ UNCHANGED exceptLenis

InitLenis ==
    /\ AosUnused
    /\ phase = "lenis"
    /\ NoOptionCall
    /\ NoAccordion
    /\ NoWidgets
    /\ aosInstance = Unloaded
    /\ marks \in [Elems -> [once : Flags, mirror : Flags]]
    /\ animated = {}
    /\ scrollTop \in ScrollPositions
    /\ refreshTimers = {}

NextLenis ==
    \/ \E once \in BOOLEAN, mirror \in BOOLEAN : LenisInit(once, mirror)
    \/ \E y \in ScrollPositions : LenisScroll(y)
    \/ LenisResize
    \/ LenisMutation
    \/ \E handler \in {"resize", "mutation"} : LenisTimer(handler)
    \/ LenisRefresh
    \/ LenisDestroy

SpecLenis == InitLenis /\ [][NextLenis]_vars

-----------------------------------------------------------------------------
(* ps-dropdown: the dropdowns of a page, their document listeners and the *)
(* zero-delay timers that register them                                   *)

\* the ps-dropdown elements of the page
NumDropdowns == 2

\* the zero-delay timers one dropdown has waiting
MaxPending == 2

Dropdowns == 1..NumDropdowns

\* where a click lands: on the trigger of one of the dropdowns, or on the
\* body outside every dropdown
Body == 0

\* the dropdowns whose _handleDocumentClick closes them for a click on
\* target: those listening on document that do not contain the target
ClosedByClick(listeners, target) == {d \in listeners : d # target}

\* _toggle() of dropdown d, and what the document's click listeners do with
\* the same click once it has bubbled up to document
TriggerClick(d) ==
    LET opens == ~open[d]
        \* _removeDocumentListeners() of the closing branch of _toggle
        listeners == IF opens THEN documentListeners ELSE documentListeners \ {d}
        others == ClosedByClick(listeners, d)
    IN  /\ opens => listenerTimers[d] < MaxPending
        /\ open' = [x \in Dropdowns |->
                       IF x = d THEN opens
                       ELSE IF x \in others THEN FALSE ELSE open[x]]
        /\ listenerTimers' = [listenerTimers EXCEPT
                                 ![d] = IF opens THEN @ + 1 ELSE @]
        /\ documentListeners' = listeners \ others
        /\ dispatched' = [x \in Dropdowns |->
                             IF x = d THEN (IF opens THEN "ps-dropdown-open"
                                            ELSE "ps-dropdown-close")
                             ELSE IF x \in others THEN "ps-dropdown-close"
                             ELSE "none"]
        /\ UNCHANGED exceptDropdown

\* a click outside every dropdown: _handleDocumentClick of each dropdown
\* that listens on document
OutsideClick ==
    /\ documentListeners # {}
    /\ open' = [x \in Dropdowns |->
                   IF x \in documentListeners THEN FALSE ELSE open[x]]
    /\ documentListeners' = {}
    /\ dispatched' = [x \in Dropdowns |->
                         IF x \in documentListeners THEN "ps-dropdown-close"
                         ELSE "none"]
    /\ UNCHANGED listenerTimers
    /\ UNCHANGED exceptDropdown

\* the Escape key is pressed: _handleEscape of each dropdown that listens
EscapeKey ==
    /\ documentListeners # {}
    /\ LET closing == {d \in documentListeners : open[d]}
       IN  /\ open' = [x \in Dropdowns |->
                          IF x \in closing THEN FALSE ELSE open[x]]
           /\ documentListeners' = documentListeners \ closing
           /\ dispatched' = [x \in Dropdowns |->
                                IF x \in closing THEN "ps-dropdown-close"
                                ELSE "none"]
    /\ UNCHANGED listenerTimers
    /\ UNCHANGED exceptDropdown

\* a timer of _addDocumentListeners runs out: the click and keydown
\* listeners of dropdown d are added to document
ListenerTimer(d) ==
    /\ listenerTimers[d] > 0
    /\ listenerTimers' = [listenerTimers EXCEPT ![d] = @ - 1]
    /\ documentListeners' = documentListeners \cup {d}
    /\ dispatched' = [x \in Dropdowns |-> "none"]
    /\ UNCHANGED open
    /\ UNCHANGED exceptDropdown

\* the dropdowns as constructed and connected: closed, nothing registered
InitDropdown ==
    /\ AosUnused
    /\ phase = "dropdown"
    /\ NoOptionCall
    /\ NoAccordion
    /\ NoLenis
    /\ NoLabels
    /\ NoModals
    /\ open = [d \in Dropdowns |-> FALSE]
    /\ documentListeners = {}
    /\ listenerTimers = [d \in Dropdowns |-> 0]
    /\ dispatched = [d \in Dropdowns |-> "none"]

NextDropdown ==
    \/ \E d \in Dropdowns : TriggerClick(d)
    \/ OutsideClick
    \/ EscapeKey
    \/ \E d \in Dropdowns : ListenerTimer(d)

SpecDropdown == InitDropdown /\ [][NextDropdown]_vars

-----------------------------------------------------------------------------
(* The floating-label utility: its containers map and the handlers it     *)
(* attaches to the inputs of a page that does not change                  *)

\* the .floating-label-field / .floating-label-container elements
NumContainers == 2

\* the handler sets (handleFocus, handleBlur, handleInput) alive at a time
MaxHandlerSets == 3

\* the destroy() calls that are counted
MaxDestroys == 1

Containers == 1..NumContainers

HandlerSets == 1..MaxHandlerSets

Labels ==
    [containers |-> containers, attached |-> attached, marked |-> marked]

\* updateContentState(container, input)
updateContentState(classes, c, hasText) ==
    [classes EXCEPT ![c] = IF hasText THEN @ \cup {"has-content"}
                           ELSE @ \ {"has-content"}]

\* the handler sets no input and no map entry holds: a new closure is none
\* of those
FreeHandlerSets(st) ==
    HandlerSets \ (UNION {st.attached[c] : c \in Containers}
                      \cup {st.containers[c] : c \in DOMAIN st.containers})

\* the body of setupContainer after its guards
Attach(st, c, hasText) ==
    IF FreeHandlerSets(st) = {} THEN st
    ELSE LET made == Min(FreeHandlerSets(st))
         IN  [containers |-> [x \in DOMAIN st.containers \cup {c} |->
                                 IF x = c THEN made ELSE st.containers[x]],
              attached |-> [st.attached EXCEPT ![c] = @ \cup {made}],
              marked |-> updateContentState(st.marked, c, hasText)]

\* faulty variant: setupContainer without `if (containers.has(container)) return`
setupContainerAgain(st, c, hasInput, hasText) ==
    IF ~hasInput THEN st ELSE Attach(st, c, hasText)

\* setupContainer(container)
setupContainer(st, c, hasInput, hasText) ==
    IF c \in DOMAIN st.containers THEN st
    ELSE IF ~hasInput THEN st
    ELSE Attach(st, c, hasText)

\* elements.forEach(setupContainer), in document order
RECURSIVE setupAll(_, _)
setupAll(st, c) ==
    IF c > NumContainers THEN st
    ELSE setupAll(setupContainer(st, c, c \in inputs, filled[c]), c + 1)

InstallLabels(st) ==
    /\ containers' = st.containers
    /\ attached' = st.attached
    /\ marked' = st.marked

\* init()
LabelsInit ==
    /\ ~labelsInitialized
    /\ InstallLabels(setupAll(Labels, 1))
    /\ labelsInitialized' = TRUE
    /\ UNCHANGED <<filled, inputs, destroyCount>>
    /\ UNCHANGED exceptLabels

\* refresh()
LabelsRefresh ==
    /\ InstallLabels(setupAll(Labels, 1))
    /\ UNCHANGED <<labelsInitialized, filled, inputs, destroyCount>>
    /\ UNCHANGED exceptLabels

\* destroy()
LabelsDestroy ==
    /\ attached' = [c \in Containers |->
                       IF c \in DOMAIN containers
                       THEN attached[c] \ {containers[c]} ELSE attached[c]]
    /\ marked' = [c \in Containers |->
                     IF c \in DOMAIN containers THEN {} ELSE marked[c]]
    /\ containers' = <<>>
    /\ labelsInitialized' = FALSE
    /\ destroyCount' = IF destroyCount < MaxDestroys THEN destroyCount + 1
                       ELSE destroyCount
    /\ UNCHANGED <<filled, inputs>>
    /\ UNCHANGED exceptLabels

\* the input of container c gets the focus: handleFocus of every handler set
\* attached to it
InputFocus(c) ==
    /\ c \in inputs
    /\ attached[c] # {}
    /\ "is-focused" \notin marked[c]
    /\ marked' = [marked EXCEPT ![c] = @ \cup {"is-focused"}]
    /\ UNCHANGED <<labelsInitialized, containers, attached, filled, inputs,
                   destroyCount>>
    /\ UNCHANGED exceptLabels

\* the input of container c loses the focus: handleBlur
InputBlur(c) ==
    /\ c \in inputs
    /\ attached[c] # {}
    /\ "is-focused" \in marked[c]
    /\ marked' = updateContentState([marked EXCEPT ![c] = @ \ {"is-focused"}],
                                    c, filled[c])
    /\ UNCHANGED <<labelsInitialized, containers, attached, filled, inputs,
                   destroyCount>>
    /\ UNCHANGED exceptLabels

\* the user edits the input of container c: its value is blank or not
\* afterwards, and handleInput runs if a handler set is attached
InputTyped(c, hasText) ==
    /\ c \in inputs
    /\ filled[c] # hasText
    /\ filled' = [filled EXCEPT ![c] = hasText]
    /\ marked' = IF attached[c] # {} THEN updateContentState(marked, c, hasText)
                 ELSE marked
    /\ UNCHANGED <<labelsInitialized, containers, attached, inputs, destroyCount>>
    /\ UNCHANGED exceptLabels

\* the page as loaded: some containers hold an input, some inputs hold text
InitLabels ==
    /\ AosUnused
    /\ phase = "labels"
    /\ NoOptionCall
    /\ NoAccordion
    /\ NoLenis
    /\ NoDropdown
    /\ NoModals
    /\ labelsInitialized = FALSE
    /\ containers = <<>>
    /\ attached = [c \in Containers |-> {}]
    /\ marked = [c \in Containers |-> {}]
    /\ inputs \in SUBSET Containers
    /\ filled \in [Containers -> BOOLEAN]
    /\ \A c \in Containers : filled[c] => c \in inputs
    /\ destroyCount = 0

NextLabels ==
    \/ LabelsInit
    \/ LabelsRefresh
    \/ LabelsDestroy
    \/ \E c \in Containers : InputFocus(c)
    \/ \E c \in Containers : InputBlur(c)
    \/ \E c \in Containers, hasText \in BOOLEAN : InputTyped(c, hasText)

SpecLabels == InitLabels /\ [][NextLabels]_vars

-----------------------------------------------------------------------------
(* The hc-modal elements of a page and the scroll lock they put on        *)
(* document.body                                                          *)

\* the hc-modal elements of the page
NumModals == 2

Modals == 1..NumModals

\* onOpen(): the scroll lock, unless no-modal
onOpen(m, fixed) == IF m \notin noModal THEN TRUE ELSE fixed

\* onClose(): the unlock, unless no-modal
onClose(m, fixed) == IF m \notin noModal THEN FALSE ELSE fixed

\* show()
ModalShow(m) ==
    /\ ~modalOpen[m]
    /\ modalOpen' = [modalOpen EXCEPT ![m] = TRUE]
    /\ openChanged' = openChanged \cup {m}
    /\ everOpen' = everOpen \cup {m}
    /\ UNCHANGED <<connected, noModal, bodyFixed>>
    /\ UNCHANGED exceptModals

\* hide(), also as requestClose calls it when ps-request-close is not
\* cancelled
ModalHide(m) ==
    /\ modalOpen[m]
    /\ modalOpen' = [modalOpen EXCEPT ![m] = FALSE]
    /\ openChanged' = openChanged \cup {m}
    /\ UNCHANGED <<connected, noModal, bodyFixed, everOpen>>
    /\ UNCHANGED exceptModals

\* updated(changed) of a modal whose changed properties include open: the
\* update Lit runs after the property was set, and the first update, whose
\* changed properties hold every initialised property
ModalUpdated(m) ==
    /\ m \in openChanged
    /\ openChanged' = openChanged \ {m}
    /\ bodyFixed' = IF modalOpen[m] THEN onOpen(m, bodyFixed)
                    ELSE onClose(m, bodyFixed)
    /\ UNCHANGED <<modalOpen, connected, noModal, everOpen>>
    /\ UNCHANGED exceptModals

\* the modal is removed from the document: disconnectedCallback()
ModalRemoved(m) ==
    /\ m \in connected
    /\ connected' = connected \ {m}
    /\ UNCHANGED <<modalOpen, openChanged, noModal, bodyFixed, everOpen>>
    /\ UNCHANGED exceptModals

\* the modal is put back into the document: connectedCallback()
ModalInserted(m) ==
    /\ m \notin connected
    /\ connected' = connected \cup {m}
    /\ UNCHANGED <<modalOpen, openChanged, noModal, bodyFixed, everOpen>>
    /\ UNCHANGED exceptModals

\* the page as parsed: closed modals in the document, with or without
\* no-modal, their first update pending
InitModals ==
    /\ AosUnused
    /\ phase = "modals"
    /\ NoOptionCall
    /\ NoAccordion
    /\ NoLenis
    /\ NoDropdown
    /\ NoLabels
    /\ modalOpen = [m \in Modals |-> FALSE]
    /\ openChanged = Modals
    /\ connected = Modals
    /\ noModal \in SUBSET Modals
    /\ bodyFixed = FALSE
    /\ everOpen = {}

NextModals ==
    \/ \E m \in Modals : ModalShow(m)
    \/ \E m \in Modals : ModalHide(m)
    \/ \E m \in Modals : ModalUpdated(m)
    \/ \E m \in Modals : ModalRemoved(m)
    \/ \E m \in Modals : ModalInserted(m)

SpecModals == InitModals /\ [][NextModals]_vars

-----------------------------------------------------------------------------
(* Properties of the coordinator *)

\* the trigger elements attached to the document
InDocument == {e \in Elems : inDoc[e]}

C4_UninitializedIsQuiet ==
    ~initialized => (observerInstances = <<>> /\ mutationObservers = 0)

\* C5: over init, refresh, disable and the mutation- and resize-triggered
\* rebuilds, the IntersectionObservers created and not disconnected are
\* exactly those held in observerInstances (none leaked, the old ones gone
\* when the new ones exist), and no element is observed by two live observers
C5_NoLeakedObserver ==
    /\ ioLive = Range(observerInstances)
    /\ Len(observerInstances) = Cardinality(ioLive)
    /\ \A o \in ObsIds \ ioLive : ioTargets[o] = {}
    /\ \A o1, o2 \in ioLive : o1 # o2 => ioTargets[o1] \cap ioTargets[o2] = {}

\* a rebuild has just replaced observers that still had entries queued by two
\* new observers
C5_Witness ==
    /\ lastOp = "build"
    /\ staleEntries # {}
    /\ Cardinality(ioLive) = 2
    /\ \A o \in ioLive : ioTargets[o] # {}

\* the group key of a trigger element under the current options
KeyOf(e) ==
    ConfigKey(getOption(attrs[e].rootMargin, options.rootMargin),
              getOption(attrs[e].threshold, options.threshold))

\* C7: after every completed observer build, getObservers() holds one
\* IntersectionObserver for each distinct group key among the trigger elements
\* in the document, configured with the group's rootMargin and threshold and
\* observing exactly the group's elements
C7_OneObserverPerGroup ==
    lastOp = "build" =>
        /\ Len(observerInstances) = Cardinality({KeyOf(e) : e \in InDocument})
        /\ \A i \in 1..Len(observerInstances) :
              LET o == observerInstances[i] IN
              \E e \in InDocument :
                  /\ ioConfig[o].rootMargin =
                        getOption(attrs[e].rootMargin, options.rootMargin)
                  /\ ioConfig[o].threshold =
                        getOption(attrs[e].threshold, options.threshold)
                  /\ ioTargets[o] = {x \in InDocument : KeyOf(x) = KeyOf(e)}

\* a build has just made two observers for two groups
C7_Witness ==
    /\ lastOp = "build"
    /\ Len(observerInstances) = 2
    /\ \E e \in InDocument : attrs[e].rootMargin # JsNull

-----------------------------------------------------------------------------
(* Properties of the animation state *)

\* the animation classes of a stamped element are applied to it
Applied(cls, meta, e) ==
    Range(meta[e].options.animatedClassNames) \subseteq cls[e]

\* the animation classes of a stamped element are all removed from it
Removed(cls, meta, e) ==
    Range(meta[e].options.animatedClassNames) \cap cls[e] = {}

\* C1: a trigger element whose once option is true and that has transitioned
\* to animated keeps its animation classes and is observed by no live
\* IntersectionObserver, over the later callbacks and rebuilds, up to the
\* next disable()
C1_OnceStaysAnimatedAndUnobserved ==
    \A e \in Elems :
        latched[e] =>
            /\ e \in DOMAIN aosMeta => Applied(classList, aosMeta, e)
            /\ \A o \in ioLive : e \notin ioTargets[o]

\* a live observer delivers in this step the entry that reports e as not
\* intersecting
ExitDelivered(e) ==
    /\ observerInstances' = observerInstances
    /\ \E o \in ioLive :
          /\ e \in ioTargets[o]
          /\ ioLast[o][e] # "out"
          /\ ioLast'[o][e] = "out"

\* C2: a trigger element whose once option is false and that an enter entry
\* has animated is returned by the exit entry to animated = false with all its
\* animation classes removed (from where a later enter animates it again)
C2_ExitUndoesEnter ==
    [][\A e \in DOMAIN aosMeta :
          (/\ ~Truthy(aosMeta[e].options.once)
           /\ Applied(classList, aosMeta, e)
           /\ ExitDelivered(e))
          => (/\ e \in DOMAIN aosMeta'
              /\ ~aosMeta'[e].animated
              /\ Removed(classList', aosMeta', e))]_vars

\* this step is a call of handleIntersection by the browser
HandlerStep ==
    \/ \E o \in ObsIds : Notify(o)
    \/ \E entry \in staleEntries : StaleNotify(entry)

\* C9: for every stamped trigger element in every reachable state, animated
\* is true exactly when its animation classes are applied to it, and once the
\* metadata is created the flag is changed only by handleIntersection
C9_FlagMirrorsClasses ==
    [][/\ \A e \in DOMAIN aosMeta' :
             aosMeta'[e].animated <=> Applied(classList', aosMeta', e)
       /\ \A e \in DOMAIN aosMeta \cap DOMAIN aosMeta' :
             aosMeta'[e].animated # aosMeta[e].animated => HandlerStep]_vars

\* C10: an entry delivered on behalf of an IntersectionObserver that a
\* rebuild or disable() has already disconnected changes no class, no
\* metadata and dispatches no event
C10_StaleEntryIsNoOp ==
    [][\A entry \in staleEntries :
          StaleNotify(entry) => UNCHANGED <<classList, aosMeta, aosInCount>>]_vars

-----------------------------------------------------------------------------
(* Properties of prepare *)

\* the resolved (rootMargin, threshold) pair of an element, as strings
ResolvedPair(e) ==
    << JsString(getOption(attrs[e].rootMargin, options.rootMargin)),
       JsString(getOption(attrs[e].threshold, options.threshold)) >>

\* prepare has put both elements into one group
SameGroup(e1, e2) ==
    \E i \in 1..Len(observerGroups) :
        {e1, e2} \subseteq Range(observerGroups[i].elements)

\* C6: prepare puts two elements into the same group if and only if their
\* resolved (rootMargin, threshold) pairs are string-identical, and returns as
\* many groups as there are distinct resolved pairs
C6_GroupsAreThePairs ==
    phase = "done" =>
        /\ \A e1, e2 \in InDocument :
              SameGroup(e1, e2) <=> ResolvedPair(e1) = ResolvedPair(e2)
        /\ Len(observerGroups) = Cardinality({ResolvedPair(e) : e \in InDocument})

-----------------------------------------------------------------------------
(* Properties of scenario A *)

\* C8: the single trigger element, in view when init() runs on a page that
\* does not change afterwards, receives exactly one aos:in event, and from
\* then on has the classes aos-init and aos-animate
C8_AnimatedExactlyOnce ==
    /\ aosInCount[1] <= 1
    /\ aosInCount[1] >= 1 =>
          (S_aos_init \in classList[1] /\ S_aos_animate \in classList[1])

-----------------------------------------------------------------------------
(* Properties of refresh and of the start of init *)

\* what a build touches: the observers, the stamps and the classes
BuildFrame ==
    <<classList, aosMeta, initialized, observerInstances, resizeObserver,
      ioLive, ioConfig, ioTargets, ioLast>>

\* C12: while initialized is false, refresh() without a truthy argument is a
\* no-op: no observer is created, no element stamped, no class added, and
\* initialized stays false
C12_RefreshBeforeInitIsNoOp ==
    [][(~initialized /\ AosRefresh(FALSE)) =>
          (UNCHANGED BuildFrame /\ ~initialized')]_vars

\* refresh() has just returned without building, after a disable() that
\* followed a build: trigger elements are in the document, none is stamped
C12_Witness ==
    /\ lastOp = "refresh"
    /\ ~initialized
    /\ timers > 0
    /\ InDocument # {}
    /\ aosMeta = [e \in {} |-> 0]

\* init() finds its start event already past: the document-ready event on a
\* document that is no longer loading
StartsAtOnce ==
    /\ options'.startEvent = "DOMContentLoaded"
    /\ readyState \in {"interactive", "complete"}

\* a start event is delivered to a listener init() registered for it
DeferredStart ==
    \/ startListeners["DOMContentLoaded"] > 0 /\ DOMContentLoaded
    \/ startListeners["load"] > 0 /\ WindowLoad

\* C13: init(settings) builds and sets initialized before it returns exactly
\* when the start event is the document-ready event and the document is past
\* loading; otherwise it leaves initialized false with no observers, and
\* the build comes when, and only when, the start event is delivered (the
\* coordinator's own callbacks never start it)
C13_InitStartTiming ==
    [][/\ \A i \in 1..Len(InitSettings) :
             AosInit(i) =>
                IF StartsAtOnce
                THEN initialized' /\ lastOp' = "build"
                ELSE /\ lastOp' = "init"
                     /\ UNCHANGED BuildFrame
                     /\ ~initialized => (~initialized' /\ observerInstances' = <<>>)
       /\ DeferredStart => (initialized' /\ lastOp' = "build")
       /\ (~initialized /\ initialized') =>
             \/ \E i \in 1..Len(InitSettings) : AosInit(i) /\ StartsAtOnce
             \/ DeferredStart
             \/ AosRefresh(TRUE)]_vars

\* the deferred build has just run: the load event was delivered to the
\* listener of an init({startEvent: 'load'}) made before it
C13_Witness ==
    /\ lastOp = "build"
    /\ initialized
    /\ readyState = "complete"
    /\ options.startEvent = "load"
    /\ observerInstances # <<>>

\* C15: however often init() is called, at most one mutation observer
\* installed by the engine is observing the document root, so that one batch
\* of mutations triggers at most one refresh.
C15_SingleWatcher == mutationObservers <= 1

\* this step is a direct call of handleIntersection
Called == phase \in {"first", "second"} /\ phase' # phase

\* the batch of this step's call holds exactly one entry for e, and it
\* reports isIntersecting = inter
SoleEntry(e, inter) ==
    \E i \in 1..Len(batch') :
        /\ batch'[i] = [target |-> e, isIntersecting |-> inter]
        /\ \A j \in 1..Len(batch') : batch'[j].target = e => j = i

\* the call of this step dispatched no event about e
NothingDispatchedFor(e) ==
    \A i \in 1..Len(eventLog') : eventLog'[i].detail # e

\* the call of this step left e as it was: its classes, its metadata and its
\* place among the observer's targets
Untouched(e) ==
    /\ classList'[e] = classList[e]
    /\ (e \in DOMAIN aosMeta') = (e \in DOMAIN aosMeta)
    /\ e \in DOMAIN aosMeta => aosMeta'[e] = aosMeta[e]
    /\ (e \in ioTargets'[1]) = (e \in ioTargets[1])

\* C11: handleIntersection skips every entry whose target has no stamped
\* metadata (no class added or removed, no event, no unobserve) and still
\* processes the entries that follow it in the batch
C11_UnstampedEntrySkipped ==
    [][Called =>
          \A e \in Elems \ DOMAIN aosMeta :
              (\E i \in 1..Len(batch') : batch'[i].target = e) =>
                 /\ Untouched(e)
                 /\ NothingDispatchedFor(e)
                 /\ \A x \in DOMAIN aosMeta :
                       (/\ Len(batch') = 2
                        /\ batch'[1].target = e
                        /\ batch'[2] = [target |-> x, isIntersecting |-> TRUE]
                        /\ ~aosMeta[x].animated) =>
                          /\ aosMeta'[x].animated
                          /\ Applied(classList', aosMeta', x)]_vars

C11_Witness ==
    /\ phase = "second"
    /\ Len(batch) = 2
    /\ batch[1].target \notin DOMAIN aosMeta
    /\ batch[2].target \in DOMAIN aosMeta
    /\ batch[2].isIntersecting
    /\ aosMeta[batch[2].target].animated
    /\ eventLog # <<>>

\* C18: for a trigger element that declares data-aos-id = v, each enter
\* transition dispatches an event named 'aos:in:' followed by v and each exit
\* transition one named 'aos:out:' followed by v, next to the unscoped event
C18_ScopedEventNamedById ==
    \A i \in 1..Len(eventLog) :
        (/\ eventLog[i].name \in {S_aos_in, S_aos_out}
         /\ attrs[eventLog[i].detail].id # JsNull) =>
            \E j \in 1..Len(eventLog) :
                /\ eventLog[j].detail = eventLog[i].detail
                /\ eventLog[j].name =
                      eventLog[i].name \o S_colon \o attrs[eventLog[i].detail].id.v

C20_OtherEntriesAreNoOps ==
    [][Called =>
          \A e \in DOMAIN aosMeta :
              (\/ SoleEntry(e, TRUE) /\ aosMeta[e].animated
               \/ SoleEntry(e, FALSE) /\ ~aosMeta[e].animated
               \/ SoleEntry(e, FALSE) /\ Truthy(aosMeta[e].options.once)) =>
                 Untouched(e) /\ NothingDispatchedFor(e)]_vars

C20_Witness ==
    /\ phase = "called"
    /\ batch = <<[target |-> 2, isIntersecting |-> TRUE]>>
    /\ 2 \in DOMAIN aosMeta
    /\ aosMeta[2].animated
    /\ 2 \in ioTargets[1]
    /\ eventLog = <<>>

\* a node with the data-aos attribute, whatever its value, is among the
\* nodes or their descendants
RECURSIVE CarriesTrigger(_)
CarriesTrigger(nodes) ==
    \E i \in 1..Len(nodes) :
        \/ nodes[i].dataset /\ nodes[i].aos # JsNull
        \/ CarriesTrigger(nodes[i].children)

\* a trigger node occurs among the added or removed nodes of some record of
\* the delivered batch
TriggerInBatch ==
    \E i \in 1..Len(mutations) :
        CarriesTrigger(mutations[i].addedNodes \o mutations[i].removedNodes)

\* C14: for a delivered batch in which a trigger node occurs the callback is
\* invoked exactly once, however many records or nodes match, and for a
\* batch without one it is not invoked
C14_OncePerBatch ==
    phase = "checked" =>
        callbackCalls = (IF TriggerInBatch THEN 1 ELSE 0)

\* C16: whenever an added or removed node, or a descendant of one, carries
\* the data-aos attribute with any value, the empty string included, the
\* callback is invoked
C16_PresenceDetected ==
    (phase = "checked" /\ TriggerInBatch) => callbackCalls >= 1

\* the non-empty tokens of s that spaces separate, in order
RECURSIVE Tokens(_)
Tokens(s) ==
    IF s = <<>> THEN <<>>
    ELSE IF Head(s) = " " THEN Tokens(Tail(s))
    ELSE IF IndexOf(s, " ") = 0 THEN <<s>>
    ELSE <<SubSeq(s, 1, IndexOf(s, " ") - 1)>>
         \o Tokens(SubSeq(s, IndexOf(s, " ") + 1, Len(s)))

\* C17: the animatedClassNames prepare stamps is [animatedClassName]
\* followed, when useClassNames is true, by exactly the non-empty
\* whitespace-separated tokens of the trigger value in order, and it never
\* holds an empty string
C17_ClassNamesAreTheTokens ==
    phase = "done" =>
        \A e \in DOMAIN aosMeta :
            /\ aosMeta[e].options.animatedClassNames =
                  <<options.animatedClassName.v>>
                  \o (IF options.useClassNames THEN Tokens(attrs[e].aos.v)
                      ELSE <<>>)
            /\ \A i \in 1..Len(aosMeta[e].options.animatedClassNames) :
                  aosMeta[e].options.animatedClassNames[i] # <<>>

CoordinatorFrame ==
    <<BuildFrame, roPending, curTimer, options, staleEntries>>

\* C23: disable() is idempotent: a disable() that directly follows a
\* disable() changes neither the coordinator's state nor any element's
\* classes or metadata, and it does not throw
C23_DisableIdempotent ==
    /\ [](lastOp = "disable" => ENABLED AosDisable)
    /\ [][(lastOp = "disable" /\ AosDisable) => UNCHANGED CoordinatorFrame]_vars

C23_Witness ==
    /\ lastOp = "disable"
    /\ ~initialized
    /\ \E e \in InDocument : classList[e] = {}
    /\ aosMeta = [e \in {} |-> 0]
    /\ timers > 0
    /\ options.startEvent = "load"

PlacesOf(e) ==
    {<<g, i>> \in (1..Len(observerGroups)) \X (1..NumElems) :
        i <= Len(observerGroups[g].elements) /\ observerGroups[g].elements[i] = e}

\* C30: in prepare the first element with a group key creates the group and
\* supplies its rootMargin and threshold, later elements with the key are
\* appended; groups come in first-seen key order, a group's elements in
\* document order, and every element is in exactly one group exactly once
C30_GroupsInFirstSeenOrder ==
    phase = "done" =>
        /\ \A e \in InDocument : Cardinality(PlacesOf(e)) = 1
        /\ \A g \in 1..Len(observerGroups) :
              LET grp == observerGroups[g] IN
              /\ grp.elements # <<>>
              /\ \A i, j \in 1..Len(grp.elements) :
                    i < j => grp.elements[i] < grp.elements[j]
              /\ \A i \in 1..Len(grp.elements) : KeyOf(grp.elements[i]) = grp.key
              /\ grp.rootMargin =
                    getOption(attrs[grp.elements[1]].rootMargin, options.rootMargin)
              /\ grp.threshold =
                    getOption(attrs[grp.elements[1]].threshold, options.threshold)
              /\ \A h \in 1..Len(observerGroups) :
                    g < h => /\ grp.key # observerGroups[h].key
                             /\ grp.elements[1] < observerGroups[h].elements[1]

\* prepare has put both elements into one group, though the second names
\* its root margin and threshold differently from the first
C30_Witness ==
    /\ phase = "done"
    /\ Len(observerGroups) = 1
    /\ observerGroups[1].elements = <<1, 2>>
    /\ attrs[1].threshold # attrs[2].threshold

-----------------------------------------------------------------------------
(* Properties of getOption *)

\* t is a decimal literal: an optional sign, then digits with at most one
\* point among them
DecimalText(t) ==
    /\ t # <<>>
    /\ LET u == IF Head(t) \in {"-", "+"} THEN Tail(t) ELSE t
           p == IndexOf(u, ".")
           ip == IF p = 0 THEN u ELSE SubSeq(u, 1, p - 1)
           fp == IF p = 0 THEN <<>> ELSE SubSeq(u, p + 1, Len(u))
       IN  AllDigits(ip) /\ AllDigits(fp) /\ (ip # <<>> \/ fp # <<>>)

\* the value is not empty and parses fully as a number (white space around
\* the number is allowed)
ParsesAsNumber(s) == DecimalText(Trim(s))

\* C25: getOption returns the fallback when the attribute is absent, the
\* booleans for exactly 'true' and 'false', the numeric value when the value
\* is not empty and parses fully as a number, and the raw attribute string
\* in every other case, the empty string included
C25_GetOptionCoercion ==
    phase = "returned" =>
        returned =
            (IF optionCall.attr = JsNull THEN optionCall.fallback
             ELSE IF optionCall.attr.v = S_true THEN JsBool(TRUE)
             ELSE IF optionCall.attr.v = S_false THEN JsBool(FALSE)
             ELSE IF ParsesAsNumber(optionCall.attr.v)
             THEN JsNum(Number(optionCall.attr.v))
             ELSE optionCall.attr)

-----------------------------------------------------------------------------
(* Properties of the accordion *)

\* no update and no animation of an item is pending
Settled == \A i \in Items : ~changed[i] /\ animation[i] = "none"

\* C26: in an accordion without allow-multiple, after any sequence of header
\* clicks and programmatic expanded = true assignments, at most one item has
\* expanded = true once the pending collapses have completed
C26_SingleExpanded ==
    (~allowMultiple /\ Settled) => Cardinality({i \in Items : expanded[i]}) <= 1

\* C27: when a listener calls preventDefault() on hc-before-expand, the
\* clicked item stays collapsed and no other item is collapsed; when it does
\* so on hc-before-collapse, the clicked item stays expanded
C27_BeforeEventCancels ==
    [][\A i \in Items :
          /\ (HeaderClick(i) /\ ~expanded[i] /\ "hc-before-expand" \in vetoes)
                => expanded' = expanded
          /\ (HeaderClick(i) /\ expanded[i] /\ "hc-before-collapse" \in vetoes)
                => expanded'[i]]_vars

\* C28: after collapseAll() every item of getItems() has expanded = false,
\* whatever the items' expanded and disabled states were
C28_CollapseAllCollapsesAll ==
    [][CollapseAll => \A i \in Items : ~expanded'[i]]_vars

-----------------------------------------------------------------------------
(* Properties of the Lenis-driven variant *)

\* C29: an element with data-aos-once="true" animates only once: once
\* handleScroll has added aos-animate to it, no later step up to destroy()
\* removes the class, whatever the scroll positions and refresh() calls
C29_OnceKeepsAnimate ==
    [][\A e \in Elems :
          (aosInstance.exists /\ marks[e].once = "true" /\ e \in animated)
              => (e \in animated' \/ ~aosInstance'.exists)]_vars

-----------------------------------------------------------------------------
(* Properties of the registry of on() *)

-----------------------------------------------------------------------------
(* Quiescence of the coordinator *)

\* a createObservers() run is scheduled: a resize observation waits to be
\* delivered or a debounce timer runs
RebuildScheduled == roPending \/ timers > 0

\* C32: after init() on a static document the coordinator reaches
\* quiescence: eventually no createObservers() run is scheduled any more
C32_Quiescence == <>[](~RebuildScheduled)

-----------------------------------------------------------------------------
(* The coordinator after disable() *)

\* the browser runs a callback the coordinator has registered: a start-event
\* listener, the mutation watcher, the resize observer, a debounce timer or
\* an intersection observer
BrowserCallback ==
    \/ DOMContentLoaded
    \/ WindowLoad
    \/ MutationCallback
    \/ ResizeCallback
    \/ \E current \in BOOLEAN : DebounceTimer(current)
    \/ \E o \in ObsIds : Notify(o)
    \/ \E entry \in staleEntries : StaleNotify(entry)

\* C33: once disable() has returned, no callback the browser runs before the
\* caller's next init() or refresh(true) re-activates the coordinator:
\* initialized stays false and observerInstances stays empty
C33_DisableSticks ==
    [][(lastOp = "disable" /\ BrowserCallback) =>
          (~initialized' /\ observerInstances' = <<>>)]_vars

-----------------------------------------------------------------------------
(* The order of the events of one element *)

\* this step dispatches aos:in for e: only the enter branch of
\* handleIntersection sets animated to true
DispatchesIn(e) ==
    /\ e \in DOMAIN aosMeta'
    /\ aosMeta'[e].animated
    /\ ~(e \in DOMAIN aosMeta /\ aosMeta[e].animated)

\* the latest event dispatched for e since the last disable() is aos:in: the
\* enter branch adds the animated class with it, and only the leave branch,
\* which dispatches aos:out, and disable() take the class away
LastWasIn(e) == S_aos_animate \in classList[e]

\* C34: between an init() and the next disable() the aos:in and aos:out
\* events of an element alternate: no aos:in is dispatched for an element
\* whose latest event was aos:in, whatever rebuilds happen in between
C34_EventsAlternate ==
    [][\A e \in Elems : DispatchesIn(e) => ~LastWasIn(e)]_vars

-----------------------------------------------------------------------------
(* The classes disable() leaves *)

\* C35: after disable() no element of the document retains a class AOS
\* added to it (the markup gives the elements no class of its own): neither
\* the extra class names of useClassNames nor class names configured by an
\* earlier init()
C35_DisableRemovesEveryClass ==
    lastOp = "disable" => \A e \in Elems : inDoc[e] => classList[e] = {}

-----------------------------------------------------------------------------
(* Properties of ps-dropdown *)

\* C36: under every interleaving of trigger clicks, outside clicks, Escape
\* presses and the zero-delay timers, a dropdown's document listeners are
\* registered only while its open is true, and ps-dropdown-close is
\* dispatched on it only in a step that takes its open from true to false
C36_ListenersOnlyWhileOpen ==
    /\ [](\A d \in documentListeners : open[d])
    /\ [][\A d \in Dropdowns :
             dispatched'[d] = "ps-dropdown-close" => (open[d] /\ ~open'[d])]_vars

-----------------------------------------------------------------------------
(* Properties of the floating-label utility *)

\* the containers init() and refresh() set up: those that hold an input
SetUp(map) == DOMAIN map = inputs

\* C37: after any sequence of init(), refresh() and destroy(), each
\* container has at most one handler set attached to its input, the one
\* recorded in the containers map; after destroy() the map is empty, no
\* handler is attached and no container carries is-focused or has-content;
\* an init() after that sets the containers up again
C37_OneHandlerSetPerContainer ==
    /\ [](\A c \in Containers :
             attached[c] = (IF c \in DOMAIN containers THEN {containers[c]}
                            ELSE {}))
    /\ [][LabelsDestroy =>
             /\ containers' = <<>>
             /\ ~labelsInitialized'
             /\ \A c \in Containers : attached'[c] = {} /\ marked'[c] = {}]_vars
    /\ [][LabelsInit =>
             /\ SetUp(containers')
             /\ \A c \in inputs : ("has-content" \in marked'[c]) = filled[c]]_vars

\* init() has set the containers up again after a destroy()
C37_Witness ==
    /\ destroyCount > 0
    /\ labelsInitialized
    /\ inputs = Containers
    /\ SetUp(containers)
    /\ \E c \in Containers : "has-content" \in marked[c]

-----------------------------------------------------------------------------
(* Properties of hc-modal *)

\* the modals that ask for the scroll lock: open, in the document and
\* without no-modal
Locking == {m \in connected : modalOpen[m] /\ m \notin noModal}

\* C38: once every pending update has run, document.body is fixed exactly
\* while a modal without no-modal is open in the document; and the update
\* of a modal that was never opened neither sets nor clears the lock
C38_LockHeldWhileOpen ==
    /\ [](openChanged = {} => (bodyFixed <=> Locking # {}))
    /\ [][\A m \in Modals :
             (ModalUpdated(m) /\ m \notin everOpen) => bodyFixed' = bodyFixed]_vars
====
